---- MODULE Spec2Model ----
(***************************************************************************)
(* A model of bazelisk: the launcher tail of RunBazelisk with the          *)
(* flag-migration loop (migrate), the binary acquisition of                *)
(* DownloadBinary run by several launcher processes over one cache         *)
(* directory, the metadata cache of MaybeDownload, runBazel with its       *)
(* signal listener, the launch planning of makeBazelCmd with the child's   *)
(* environment, version resolution with the repository set, the local      *)
(* binary of linkLocalBazel, and RunBazelisk from its start to the exit    *)
(* of main.                                                                *)
(*                                                                         *)
(* Strings are sequences of byte values, so that sort.Strings and the      *)
(* comparison with "--" are computed on bytes as Go computes them.         *)
(***************************************************************************)
EXTENDS Integers, Sequences, FiniteSets, TLC

\* ------------------------------------------------------------------ bounds

\* Largest exit status a normally exiting child returns in the model.
MaxExitCode == 2
\* Largest number of incompatible flags the issue tracker yields.
MaxFlags == 2
\* Number of DownloadBinary calls one launcher process makes in the model.
MaxCalls == 2
\* Number of MaybeDownload calls one process makes for the metadata key.
MaxRequests == 2
\* The clock of the metadata cache counts ticks; this many make one hour.
TicksPerHour == 2
\* The last tick of the clock.
MaxTime == 3
\* Number of signals delivered to the launcher in the signal model.
MaxSignals == 2
\* Number of launcher invocations in one chain of nested invocations.
MaxNesting == 3
\* Depth of the working directory below the filesystem root.
MaxDepth == 2
\* Longest value of an environment variable, in characters.
MaxValLen == 2
\* Longest version specifier, in characters.
MaxSpecLen == 3
\* Largest N of a specifier latest-N.
MaxOffset == 3
\* Most entries of a version listing.
MaxListLen == 3
\* Highest release track a specifier restricts to.
MaxTrack == 2
\* Longest text after the version numbers of a candidate label, in characters.
MaxSuffixLen == 4

\* Number of linkLocalBazel calls made on one cache directory.
MaxLinkCalls == 3

\* ----------------------------------------------------------------- strings

\* "--"
StrDashDash == <<45, 45>>
\* "--migrate", "--strict", "--print_env", "version"
StrMigrate == <<45, 45, 109>>
StrStrict == <<45, 45, 115>>
StrPrintEnv == <<45, 45, 112>>
\* "shutdown", "clean", "--expunge" (abbreviated to their leading bytes)
StrShutdown == <<115, 104>>
StrClean == <<99, 108>>
StrExpunge == <<45, 45, 101>>
\* "build", "//:t"
StrBuild == <<98>>
StrTarget == <<47, 47, 58, 116>>

\* The candidate flag names: "--a", "--ab", "--b", "--B" (byte order puts the
\* upper-case name first and "--ab" between "--a" and "--b").
FlagUniverse == {<<45, 45, 97>>, <<45, 45, 97, 98>>, <<45, 45, 98>>, <<45, 45, 66>>}

\* Go's string comparison a < b: bytewise, a proper prefix is smaller.
RECURSIVE StrLess(_, _)
StrLess(a, b) ==
    IF b = <<>> THEN FALSE
    ELSE IF a = <<>> THEN TRUE
    ELSE IF Head(a) # Head(b) THEN Head(a) < Head(b)
    ELSE StrLess(Tail(a), Tail(b))

\* Some enumeration of a set (the iteration order of a Go map is unspecified).
RECURSIVE SetToSeq(_)
SetToSeq(S) ==
    IF S = {} THEN <<>>
    ELSE LET x == CHOOSE y \in S : TRUE IN <<x>> \o SetToSeq(S \ {x})

\* Insert string x into the ascending sequence s.
RECURSIVE InsertSorted(_, _)
InsertSorted(x, s) ==
    IF s = <<>> THEN <<x>>
    ELSE IF StrLess(x, Head(s)) THEN <<x>> \o s
    ELSE <<Head(s)>> \o InsertSorted(x, Tail(s))

\* sort.Strings
RECURSIVE SortStrings(_)
SortStrings(s) ==
    IF s = <<>> THEN <<>> ELSE InsertSorted(Head(s), SortStrings(Tail(s)))

RECURSIVE Reverse(_)
Reverse(s) == IF s = <<>> THEN <<>> ELSE Reverse(Tail(s)) \o <<Head(s)>>

\* getSortedKeys with the comparator inverted.
getSortedKeysDescending(data) == Reverse(SortStrings(SetToSeq(data)))

\* getSortedKeys: the keys of the flag map, sorted.
getSortedKeys(data) == SortStrings(SetToSeq(data))

\* The loop of insertArgs over baseArgs[i..], result so far in acc.
RECURSIVE insertArgsLoop(_, _, _, _, _)
insertArgsLoop(baseArgs, newArgs, i, inserted, acc) ==
    IF i > Len(baseArgs)
    THEN IF ~inserted THEN acc \o newArgs ELSE acc
    ELSE IF ~inserted /\ baseArgs[i] = StrDashDash
         THEN insertArgsLoop(baseArgs, newArgs, i + 1, TRUE,
                             (acc \o newArgs) \o <<baseArgs[i]>>)
         ELSE insertArgsLoop(baseArgs, newArgs, i + 1, inserted,
                             acc \o <<baseArgs[i]>>)

\* newArgs go before every "--" of baseArgs, or at the end if there is none.
RECURSIVE insertArgsBeforeEvery(_, _)
insertArgsBeforeEvery(baseArgs, newArgs) ==
    IF \A i \in 1..Len(baseArgs) : baseArgs[i] # StrDashDash THEN baseArgs \o newArgs
    ELSE IF Len(baseArgs) = 1 THEN newArgs \o baseArgs
    ELSE IF Head(baseArgs) = StrDashDash
    THEN (newArgs \o <<StrDashDash>>)
             \o (IF \A i \in 2..Len(baseArgs) : baseArgs[i] # StrDashDash
                 THEN Tail(baseArgs)
                 ELSE insertArgsBeforeEvery(Tail(baseArgs), newArgs))
    ELSE <<Head(baseArgs)>> \o insertArgsBeforeEvery(Tail(baseArgs), newArgs)

\* insertArgs: newArgs go before the first "--" of baseArgs, else at the end.
insertArgs(baseArgs, newArgs) == insertArgsLoop(baseArgs, newArgs, 1, FALSE, <<>>)

\* ------------------------------------------------------- launcher state

VARIABLES
    argv,        \* os.Args[1:], as RunBazelisk receives it
    args,        \* RunBazelisk's local args (rewritten by --strict)
    flags,       \* the keys of the map getIncompatibleFlags yields
    envShutdown, \* getEnvOrConfig("BAZELISK_SHUTDOWN") is not empty
    envClean,    \* getEnvOrConfig("BAZELISK_CLEAN") is not empty
    pc,          \* the launcher's position
    phase,       \* migrate: the trial in preparation: "all", "none", "each"
    newArgs,     \* migrate: the sorted flag names
    margs,       \* migrate: its local args, the argument list of the next trial
    idx,         \* migrate: index into newArgs of the per-flag loop
    passList,    \* migrate: passList
    failList,    \* migrate: failList
    reported,    \* migrate: the report has been printed
    runs,        \* every runBazel call so far: kind, phase, args, child outcome
    term         \* how the launcher ended: running, os.Exit(code), return (code, err)

launcherVars == <<argv, args, flags, envShutdown, envClean, pc, phase, newArgs,
                  margs, idx, passList, failList, reported, runs, term>>

VARIABLES
    fs,      \* the cache directory: name -> file
    apc,     \* each process's position in DownloadBinary
    adest,   \* the destination path of the process's current call
    acall,   \* the number of calls the process has started
    agets,   \* the HTTP GETs of the process's current call
    afound,  \* whether the Stat of the current call found the destination
    aresp,   \* the response the current call's request got, "none" without one
    ahist    \* the process's finished calls: the destination, the returned
             \* (path, err), the GETs made, whether Stat found the destination,
             \* whether the rename found it (over), and whether the call met a
             \* failure of its own (io)

acquireVars == <<fs, apc, adest, acall, agets, afound, aresp, ahist>>

VARIABLES
    mfile,   \* the cache file of one metadata key: exists, content, mtime
    now,     \* the wall clock, in ticks
    mpc,     \* each process's position in MaybeDownload
    mcall,   \* the number of MaybeDownload calls the process has started
    mcur,    \* the current call: what Stat saw, when, and the fetched body
    mhist    \* the process's finished MaybeDownload calls

metaVars == <<mfile, now, mpc, mcall, mcur, mhist>>

VARIABLES
    goos,     \* runtime.GOOS of the launcher
    rcall,    \* the number of runBazel calls begun
    rpc,      \* the main goroutine's position in runBazel
    child,    \* each call's child process: none, running, exited, reaped
    cout,     \* how each child ended
    rret,     \* what each call returned
    notified, \* the calls whose channel signal.Notify has registered
    lst,      \* each call's listener goroutine: none, created, recv, got, done
    lsig,     \* the signal (its number in siglog) the listener received
    siglog,   \* the signals delivered to the launcher, in order
    chgot     \* the signals each child was sent while it ran

signalVars == <<goos, rcall, rpc, child, cout, rret, notified, lst, lsig, siglog, chgot>>

VARIABLES
    wfile,   \* the file tools/bazel of directory wdir: exists, dir, mode
    wdir,    \* the one directory that may hold a tools/bazel
    marked,  \* the directories that hold a WORKSPACE or WORKSPACE.bazel
    rcSkip,  \* the value .bazeliskrc gives BAZELISK_SKIP_WRAPPER, "" if none
    chain,   \* the processes of a chain of nested invocations, outermost first
    plans    \* what makeBazelCmd decided in each launcher of the chain

planVars == <<wfile, wdir, marked, rcSkip, chain, plans>>

VARIABLES
    penv,    \* os.Environ() of the launcher: a list of NAME=value strings
    cenv     \* cmd.Env as makeBazelCmd leaves it, empty before

envVars == <<penv, cenv>>

VARIABLES
    vop,     \* the operation of version resolution called last, "none" before
    vin,     \* its arguments
    vout     \* what it returned

resolveVars == <<vop, vin, vout>>

VARIABLES
    lfile,   \* what the file at each source path holds, Missing if there is none
    canLink, \* the filesystem of the cache supports symbolic links
    ldirs,   \* the destination directories made so far
    links,   \* the directory entry at each destination path
    lhist    \* the linkLocalBazel calls made so far, with what they did

linkVars == <<lfile, canLink, ldirs, links, lhist>>

VARIABLES
    hargs,   \* the arguments RunBazelisk is called with
    hpc,     \* where RunBazelisk, and main after it, stands
    hspec,   \* bazelVersionString, what getBazelVersion returned
    hpath,   \* bazelPath
    hver,    \* resolvedBazelVersion
    hlog,    \* the steps taken so far, in order
    hfail,   \* the step that failed, "none" if none did
    hret,    \* how RunBazelisk ended
    hchild,  \* the child that was started, its binary and what became of it
    hexit    \* the exit status of the launcher process, -1 while it runs

runVars == <<hargs, hpc, hspec, hpath, hver, hlog, hfail, hret, hchild, hexit>>

\* What the actions of one part of the program leave alone.
notLauncherVars == <<acquireVars, metaVars, signalVars, planVars, envVars, resolveVars, linkVars, runVars>>
notAcquireVars == <<launcherVars, metaVars, signalVars, planVars, envVars, resolveVars, linkVars, runVars>>
notMetaVars == <<launcherVars, acquireVars, signalVars, planVars, envVars, resolveVars, linkVars, runVars>>
notSignalVars == <<launcherVars, acquireVars, metaVars, planVars, envVars, resolveVars, linkVars, runVars>>
notPlanVars == <<launcherVars, acquireVars, metaVars, signalVars, envVars, resolveVars, linkVars, runVars>>
notEnvVars == <<launcherVars, acquireVars, metaVars, signalVars, planVars, resolveVars, linkVars, runVars>>
notResolveVars == <<launcherVars, acquireVars, metaVars, signalVars, planVars, envVars, linkVars, runVars>>
notLinkVars == <<launcherVars, acquireVars, metaVars, signalVars, planVars, envVars, resolveVars, runVars>>
notRunVars == <<launcherVars, acquireVars, metaVars, signalVars, planVars, envVars, resolveVars, linkVars>>

\* What can become of the child of one runBazel call.
ChildOutcomes ==
    {[how |-> "nostart", status |-> 0], [how |-> "waiterr", status |-> 0],
     [how |-> "signaled", status |-> 0]}
    \cup {[how |-> "exited", status |-> k] : k \in 0..MaxExitCode}

\* A child's nonzero exit status comes back as an error of the launcher.
runBazelReturnErrOnFailure(o) ==
    CASE o.how = "exited" /\ o.status = 0 -> [code |-> 0, err |-> FALSE]
      [] o.how = "signaled" -> [code |-> -1, err |-> FALSE]
      [] OTHER -> [code |-> 1, err |-> TRUE]

\* runBazel: the (exitCode, err) it returns for a child outcome. A child that
\* was killed by a signal has WaitStatus.ExitStatus() = -1.
runBazelReturn(o) ==
    CASE o.how = "nostart" -> [code |-> 1, err |-> TRUE]
      [] o.how = "exited" -> [code |-> o.status, err |-> FALSE]
      [] o.how = "signaled" -> [code |-> -1, err |-> FALSE]
      [] OTHER -> [code |-> 1, err |-> TRUE]

Running == [kind |-> "running", code |-> 0, err |-> FALSE]
\* os.Exit(code)
OsExit(code) == [kind |-> "exit", code |-> code, err |-> FALSE]
\* log.Fatalf: prints and calls os.Exit(1)
LogFatal == [kind |-> "exit", code |-> 1, err |-> TRUE]
\* return code, err from RunBazelisk
Return(code, err) == [kind |-> "return", code |-> code, err |-> err]

RunRecord(kind, ph, a, o) == [kind |-> kind, phase |-> ph, args |-> a, outcome |-> o]

BaseArgsSet ==
    {<<StrBuild, StrTarget>>,
     <<StrBuild, StrDashDash, StrTarget>>,
     <<StrBuild, StrDashDash, StrTarget, StrDashDash>>}

FirstArgs == {<<>>, <<StrMigrate>>, <<StrStrict>>, <<StrPrintEnv>>}

LauncherInit ==
    /\ argv \in {f \o b : f \in FirstArgs, b \in BaseArgsSet}
    /\ args = argv
    /\ flags \in {F \in SUBSET FlagUniverse : Cardinality(F) <= MaxFlags}
    /\ envShutdown \in BOOLEAN
    /\ envClean \in BOOLEAN
    /\ pc = "dispatch"
    /\ phase = "none"
    /\ newArgs = <<>>
    /\ margs = <<>>
    /\ idx = 0
    /\ passList = <<>>
    /\ failList = <<>>
    /\ reported = FALSE
    /\ runs = <<>>
    /\ term = Running

\* ----------------------------------------------------- launcher actions

\* No first argument is taken for a reserved one.
IsReservedNever(a, word) == FALSE

\* len(args) > 0 && args[0] == word
IsReserved(a, word) == Len(a) > 0 /\ a[1] = word

\* RunBazelisk from the --print_env test up to the call of migrate or runBazel.
\* fetchOk is whether getIncompatibleFlags succeeds.
Dispatch ==
    /\ UNCHANGED notLauncherVars
    /\ pc = "dispatch"
    /\ \E fetchOk \in BOOLEAN :
         IF IsReserved(args, StrPrintEnv)
         THEN /\ pc' = "done"
              /\ term' = Return(0, FALSE)
              /\ UNCHANGED <<args, newArgs, margs, phase>>
         ELSE IF IsReserved(args, StrStrict) \/ IsReserved(args, StrMigrate)
         THEN IF ~fetchOk
              THEN /\ pc' = "done"
                   /\ term' = Return(-1, TRUE)
                   /\ UNCHANGED <<args, newArgs, margs, phase>>
              ELSE IF IsReserved(args, StrMigrate)
              THEN \* migrate(bazelPath, args[1:], newFlags), up to its first
                   \* shutdownIfNeeded
                   /\ newArgs' = getSortedKeys(flags)
                   /\ margs' = insertArgs(Tail(args), getSortedKeys(flags))
                   /\ phase' = "all"
                   /\ pc' = "m_shutdown"
                   /\ UNCHANGED <<args, term>>
              ELSE /\ args' = insertArgs(Tail(args), getSortedKeys(flags))
                   /\ pc' = "launch"
                   /\ UNCHANGED <<newArgs, margs, phase, term>>
         ELSE /\ pc' = "launch"
              /\ UNCHANGED <<args, newArgs, margs, phase, term>>
    /\ UNCHANGED <<argv, flags, envShutdown, envClean, idx, passList, failList,
                   reported, runs>>

\* The final runBazel(bazelPath, args) of RunBazelisk and its return.
Launch ==
    /\ UNCHANGED notLauncherVars
    /\ pc = "launch"
    /\ \E o \in ChildOutcomes :
         LET r == runBazelReturn(o) IN
         /\ runs' = Append(runs, RunRecord("launch", "none", args, o))
         /\ term' = IF r.err THEN Return(-1, TRUE) ELSE Return(r.code, FALSE)
    /\ pc' = "done"
    /\ UNCHANGED <<argv, args, flags, envShutdown, envClean, phase, newArgs, margs,
                   idx, passList, failList, reported>>

\* shutdownIfNeeded runs only before the first trial.
ShutdownNeededFirstOnly(ph) == envShutdown /\ ph = "all"

\* shutdownIfNeeded's test of BAZELISK_SHUTDOWN, before the trial of phase ph.
ShutdownNeeded(ph) == envShutdown

\* cleanIfNeeded's test of BAZELISK_CLEAN, before the trial of phase ph.
CleanNeeded(ph) == envClean

\* A failed shutdown or clean sub-invocation ends the program with status 1.
SubInvocationExitOne(kind, subArgs, next) ==
    \E o \in ChildOutcomes :
        LET r == runBazelReturn(o) IN
        /\ runs' = Append(runs, RunRecord(kind, phase, subArgs, o))
        /\ IF r.err THEN pc' = "done" /\ term' = LogFatal
           ELSE IF r.code # 0 THEN pc' = "done" /\ term' = OsExit(1)
           ELSE pc' = next /\ term' = term

\* A shutdown or clean sub-invocation: runBazel, then log.Fatalf on an error,
\* os.Exit(exitCode) on a nonzero exit code, else on to pc next.
SubInvocation(kind, subArgs, next) ==
    \E o \in ChildOutcomes :
        LET r == runBazelReturn(o) IN
        /\ runs' = Append(runs, RunRecord(kind, phase, subArgs, o))
        /\ IF r.err THEN pc' = "done" /\ term' = LogFatal
           ELSE IF r.code # 0 THEN pc' = "done" /\ term' = OsExit(r.code)
           ELSE pc' = next /\ term' = term

\* shutdownIfNeeded(bazelPath)
ShutdownStep ==
    /\ UNCHANGED notLauncherVars
    /\ pc = "m_shutdown"
    /\ IF ShutdownNeeded(phase)
       THEN SubInvocation("shutdown", <<StrShutdown>>, "m_clean")
       ELSE pc' = "m_clean" /\ UNCHANGED <<runs, term>>
    /\ UNCHANGED <<argv, args, flags, envShutdown, envClean, phase, newArgs, margs,
                   idx, passList, failList, reported>>

\* cleanIfNeeded(bazelPath)
CleanStep ==
    /\ UNCHANGED notLauncherVars
    /\ pc = "m_clean"
    /\ IF CleanNeeded(phase)
       THEN SubInvocation("clean", <<StrClean, StrExpunge>>, "m_trial")
       ELSE pc' = "m_trial" /\ UNCHANGED <<runs, term>>
    /\ UNCHANGED <<argv, args, flags, envShutdown, envClean, phase, newArgs, margs,
                   idx, passList, failList, reported>>

\* The all-flags trial never ends the migration.
AfterAllFlagsNoEarlyExit(code) == [exit |-> FALSE, code |-> 0]

\* After the all-flags trial: exitCode == 0 ends the program with os.Exit(0).
AfterAllFlags(code) ==
    IF code = 0 THEN [exit |-> TRUE, code |-> 0] ELSE [exit |-> FALSE, code |-> 0]

\* The sanity check exits with a fixed status.
AfterNoFlagsExitOne(code) ==
    IF code # 0 THEN [exit |-> TRUE, code |-> 1] ELSE [exit |-> FALSE, code |-> 0]

\* After the no-flags trial: exitCode != 0 ends the program with os.Exit(exitCode).
AfterNoFlags(code) ==
    IF code # 0 THEN [exit |-> TRUE, code |-> code] ELSE [exit |-> FALSE, code |-> 0]

\* The classification with the lists swapped.
PassesSwapped(code) == code # 0

\* The per-flag classification: exitCode == 0 goes to passList.
Passes(code) == code = 0

\* The loop head of "for _, arg := range newArgs", about to take element i:
\* the next trial's argument list, or the report when the range is exhausted.
LoopHead(i) ==
    IF i > Len(newArgs)
    THEN pc' = "m_report" /\ UNCHANGED margs
    ELSE pc' = "m_shutdown" /\ margs' = insertArgs(Tail(args), <<newArgs[i]>>)

\* The runBazel of one trial of migrate and what follows it, up to the next
\* shutdownIfNeeded or the report.
TrialStep ==
    /\ UNCHANGED notLauncherVars
    /\ pc = "m_trial"
    /\ \E o \in ChildOutcomes :
         LET r == runBazelReturn(o) IN
         /\ runs' = Append(runs, RunRecord("trial", phase, margs, o))
         /\ IF r.err
            THEN /\ pc' = "done"
                 /\ term' = LogFatal
                 /\ UNCHANGED <<phase, margs, idx, passList, failList>>
            ELSE CASE phase = "all" ->
                      IF AfterAllFlags(r.code).exit
                      THEN /\ pc' = "done"
                           /\ term' = OsExit(AfterAllFlags(r.code).code)
                           /\ UNCHANGED <<phase, margs, idx, passList, failList>>
                      ELSE /\ margs' = Tail(args)
                           /\ phase' = "none"
                           /\ pc' = "m_shutdown"
                           /\ UNCHANGED <<term, idx, passList, failList>>
                   [] phase = "none" ->
                      IF AfterNoFlags(r.code).exit
                      THEN /\ pc' = "done"
                           /\ term' = OsExit(AfterNoFlags(r.code).code)
                           /\ UNCHANGED <<phase, margs, idx, passList, failList>>
                      ELSE /\ phase' = "each"
                           /\ idx' = 1
                           /\ LoopHead(1)
                           /\ UNCHANGED <<term, passList, failList>>
                   [] OTHER ->
                      /\ IF Passes(r.code)
                         THEN /\ passList' = Append(passList, newArgs[idx])
                              /\ UNCHANGED failList
                         ELSE /\ failList' = Append(failList, newArgs[idx])
                              /\ UNCHANGED passList
                      /\ idx' = idx + 1
                      /\ LoopHead(idx + 1)
                      /\ UNCHANGED <<term, phase>>
    /\ UNCHANGED <<argv, args, flags, envShutdown, envClean, newArgs, reported>>

\* The report is followed by a return to RunBazelisk.
ReportEndReturns(fails) == [pc |-> "launch", term |-> Running]

\* The report is followed by os.Exit(0).
ReportEndExitZero(fails) == [pc |-> "done", term |-> OsExit(0)]

\* The report is followed by os.Exit(0) when no flag failed.
ReportEndByFailures(fails) ==
    [pc |-> "done", term |-> OsExit(IF fails = <<>> THEN 0 ELSE 1)]

\* The end of migrate after the report: os.Exit(1).
ReportEnd(fails) == [pc |-> "done", term |-> OsExit(1)]

\* The report of migrate: the pass list, the fail list, then the exit.
Report ==
    /\ UNCHANGED notLauncherVars
    /\ pc = "m_report"
    /\ reported' = TRUE
    /\ pc' = ReportEnd(failList).pc
    /\ term' = ReportEnd(failList).term
    /\ UNCHANGED <<argv, args, flags, envShutdown, envClean, phase, newArgs, margs,
                   idx, passList, failList, runs>>

LauncherNext == Dispatch \/ Launch \/ ShutdownStep \/ CleanStep \/ TrialStep \/ Report

\* ------------------------------------------------------ migration claims

IsTrial(r) == r.kind = "trial"
\* The trials of migrate so far, in the order they were run.
Trials == SelectSeq(runs, IsTrial)
ExitedWith(r, k) == r.outcome.how = "exited" /\ r.outcome.status = k
\* The child ran and did not exit with status 0.
Failed(r) == r.outcome.how = "signaled" \/ (r.outcome.how = "exited" /\ r.outcome.status # 0)
\* The argument list after the reserved first argument.
BaseArgs == Tail(argv)
Count(s, x) == Cardinality({i \in 1..Len(s) : s[i] = x})
Ascending(s) == \A i \in 1..Len(s) : \A j \in 1..Len(s) : i < j => StrLess(s[i], s[j])
IsPrefix(s, t) == Len(s) <= Len(t) /\ \A i \in 1..Len(s) : s[i] = t[i]
\* The flag names in ascending order, stated without the sorting code.
FlagsAscending ==
    CHOOSE s \in [1..Cardinality(flags) -> flags] :
        Ascending(s) /\ {s[i] : i \in 1..Cardinality(flags)} = flags
\* A runBazel call that ended the program: the child did not start or could not
\* be waited for, or a shutdown or clean sub-invocation did not exit with 0.
Aborted ==
    \E i \in 1..Len(runs) :
        \/ runs[i].outcome.how \in {"nostart", "waiterr"}
        \/ runs[i].kind \in {"shutdown", "clean"} /\ ~ExitedWith(runs[i], 0)

\* C1: if the all-flags trial (the first trial, base args with every flag
\* inserted) exits with code 0, it is the only trial ever run, nothing is run
\* after it, and the program has ended by os.Exit(0).
Inv_C1_AllFlagsSuccessEndsMigration ==
    \A i \in 1..Len(runs) :
        (IsTrial(runs[i]) /\ runs[i].phase = "all" /\ ExitedWith(runs[i], 0))
        => /\ Len(Trials) = 1
           /\ i = Len(runs)
           /\ runs[i].args = insertArgs(BaseArgs, FlagsAscending)
           /\ pc = "done"
           /\ term.kind = "exit" /\ term.code = 0

Witness_C1 ==
    /\ flags # {}
    /\ Len(Trials) = 1
    /\ Trials[1].phase = "all" /\ ExitedWith(Trials[1], 0)
    /\ pc = "done"

\* C2: if the all-flags trial fails and the no-flags trial (the unmodified
\* base args) exits with a nonzero code k, exactly two trials were run, no
\* per-flag trial is started and the program has ended by os.Exit(k).
Inv_C2_SanityFailureExitsWithItsCode ==
    \A i \in 1..Len(Trials) :
        (Trials[i].phase = "none" /\ Trials[i].outcome.how = "exited"
            /\ Trials[i].outcome.status # 0)
        => /\ Len(Trials) = 2 /\ i = 2
           /\ Failed(Trials[1]) /\ Trials[1].phase = "all"
           /\ Trials[2].args = BaseArgs
           /\ runs[Len(runs)] = Trials[2]
           /\ pc = "done"
           /\ term.kind = "exit" /\ term.code = Trials[2].outcome.status

Witness_C2 ==
    /\ Len(Trials) = 2
    /\ ExitedWith(Trials[1], 1)
    /\ Trials[2].phase = "none" /\ ExitedWith(Trials[2], 2)
    /\ pc = "done"

ExpectedTrials ==
    <<[phase |-> "all", args |-> insertArgs(BaseArgs, FlagsAscending)],
      [phase |-> "none", args |-> BaseArgs]>>
    \o [i \in 1..Cardinality(flags) |->
            [phase |-> "each", args |-> insertArgs(BaseArgs, <<FlagsAscending[i]>>)]]

Inv_C4_TrialsArePrefixOfFixedSequence ==
    IsPrefix([i \in 1..Len(Trials) |->
                 [phase |-> Trials[i].phase, args |-> Trials[i].args]],
             ExpectedTrials)

Witness_C4 ==
    /\ Cardinality(flags) = 2
    /\ Len(Trials) = 4
    /\ \E i \in 1..Len(argv) : argv[i] = StrDashDash

\* C5: with --migrate as first argument the launcher never reaches the final
\* launch of RunBazelisk: once migrate is called every path ends in os.Exit
\* (log.Fatalf included); the only return is the one before migrate is called,
\* when the flag list cannot be fetched.
Inv_C5_MigrateNeverReturns ==
    IsReserved(argv, StrMigrate)
    => /\ pc \in {"dispatch", "m_shutdown", "m_clean", "m_trial", "m_report", "done"}
       /\ \A i \in 1..Len(runs) : runs[i].kind # "launch"
       /\ pc = "done" =>
            \/ term.kind = "exit"
            \/ term = Return(-1, TRUE) /\ runs = <<>> /\ newArgs = <<>>

Witness_C5 ==
    /\ IsReserved(argv, StrMigrate)
    /\ reported
    /\ pc = "done"

\* C6: when migrate reaches the report and some flag failed its single-flag
\* trial, the program ends with exit code 1.
Inv_C6_ReportWithFailuresExitsOne ==
    (reported /\ failList # <<>>) => (pc = "done" /\ term.kind = "exit" /\ term.code = 1)

Witness_C6 ==
    reported /\ failList # <<>> /\ passList # <<>>

\* C7: every trial is immediately preceded by a successful shutdown when the
\* shutdown toggle is set and by a successful clean --expunge when the clean
\* toggle is set, in the order shutdown, clean, trial; with a toggle unset the
\* corresponding sub-invocation is never run.
IsSub(r, kind, subArgs) == r.kind = kind /\ r.args = subArgs /\ ExitedWith(r, 0)

Inv_C7_TrialsPrecededByShutdownAndClean ==
    /\ \A i \in 1..Len(runs) :
         IsTrial(runs[i]) =>
           /\ envClean => (i > 1 /\ IsSub(runs[i - 1], "clean", <<StrClean, StrExpunge>>))
           /\ (envShutdown /\ envClean)
                => (i > 2 /\ IsSub(runs[i - 2], "shutdown", <<StrShutdown>>))
           /\ (envShutdown /\ ~envClean)
                => (i > 1 /\ IsSub(runs[i - 1], "shutdown", <<StrShutdown>>))
    /\ ~envShutdown => \A i \in 1..Len(runs) : runs[i].kind # "shutdown"
    /\ ~envClean => \A i \in 1..Len(runs) : runs[i].kind # "clean"
    /\ \A i \in 1..Len(runs) :
         /\ runs[i].kind = "shutdown" => runs[i].args = <<StrShutdown>>
         /\ runs[i].kind = "clean" => runs[i].args = <<StrClean, StrExpunge>>

Witness_C7 ==
    /\ envShutdown /\ envClean
    /\ Len(Trials) = 4
    /\ Len(runs) = 12

\* The number of base arguments before the place of insertion: those before
\* the first "--", all of them without one.
ArgsBeforeInsertion(b) ==
    IF \E i \in 1..Len(b) : b[i] = StrDashDash
    THEN (CHOOSE i \in 1..Len(b) :
              b[i] = StrDashDash /\ \A j \in 1..(i - 1) : b[j] # StrDashDash) - 1
    ELSE Len(b)
\* The flags inserted for the k-th trial: all of them for the all-flags
\* trial, none for the sanity check, the one flag of a per-flag trial.
InsertedFor(r, k) ==
    IF r.phase = "all" THEN FlagsAscending
    ELSE IF r.phase = "each" THEN <<FlagsAscending[k - 2]>>
    ELSE <<>>
\* The base arguments with a block inserted at the place of insertion.
Spliced(block) ==
    LET k == ArgsBeforeInsertion(BaseArgs)
    IN (SubSeq(BaseArgs, 1, k) \o block) \o SubSeq(BaseArgs, k + 1, Len(BaseArgs))

\* C35: the argument list of every trial and of the launch of --strict is the
\* base arguments up to the first "--" (all of them without one), then the
\* inserted flags as one block, then the rest of the base arguments.
Inv_C35_InsertedBeforeFirstDashDash ==
    /\ \A i \in 1..Len(Trials) : Trials[i].args = Spliced(InsertedFor(Trials[i], i))
    /\ \A i \in 1..Len(runs) :
           (runs[i].kind = "launch" /\ IsReserved(argv, StrStrict)) =>
               runs[i].args = Spliced(FlagsAscending)

Witness_C35 ==
    /\ Len(Trials) >= 3
    /\ Cardinality(flags) = 2
    /\ Count(BaseArgs, StrDashDash) = 2
    /\ Len(Trials[1].args) = Len(BaseArgs) + 2
    /\ Trials[1].args[2] # StrDashDash
    /\ Trials[1].args[4] = StrDashDash

\* C36: a shutdown or clean sub-invocation of migrate that exits with a
\* nonzero code k is the last thing run: the program has ended with exit code
\* k and no report.
Inv_C36_FailedSubInvocationExitsWithItsCode ==
    \A i \in 1..Len(runs) :
        (/\ runs[i].kind \in {"shutdown", "clean"}
         /\ runs[i].outcome.how = "exited"
         /\ runs[i].outcome.status # 0) =>
            /\ i = Len(runs)
            /\ pc = "done"
            /\ term = OsExit(runs[i].outcome.status)
            /\ ~reported

Witness_C36 ==
    /\ Len(runs) >= 5
    /\ runs[Len(runs)].kind = "clean"
    /\ runs[Len(runs)].phase = "each"
    /\ ExitedWith(runs[Len(runs)], MaxExitCode)
    /\ term = OsExit(MaxExitCode)

\* The all-flags trial exited with code 0.
AllFlagsPassed ==
    \E i \in 1..Len(runs) :
        IsTrial(runs[i]) /\ runs[i].phase = "all" /\ ExitedWith(runs[i], 0)

\* C37: a migration that has ended the program ended it with exit code 0
\* exactly when the all-flags trial exited with 0.
Inv_C37_ExitZeroIffAllFlagsPassed ==
    /\ (IsReserved(argv, StrMigrate) /\ term.kind = "exit") =>
           (term.code = 0 <=> AllFlagsPassed)
    /\ AllFlagsPassed => term = OsExit(0)

Witness_C37 ==
    /\ IsReserved(argv, StrMigrate)
    /\ reported
    /\ failList = <<>>
    /\ Len(passList) = 2
    /\ term = OsExit(1)

ReservedWords == {StrPrintEnv, StrStrict, StrMigrate}
\* What the launcher forwards: the arguments after a reserved first one.
Forwarded == IF argv[1] \in ReservedWords THEN Tail(argv) ELSE argv
IsNoFlag(a) == a \notin flags

\* C33: no child gets a reserved word as an argument, the arguments of every
\* trial and launch are the forwarded arguments in their order with only
\* flags added, and --print_env runs no child and returns 0.
Inv_C33_ReservedFirstArgumentConsumed ==
    /\ \A i \in 1..Len(runs) :
           /\ \A j \in 1..Len(runs[i].args) : runs[i].args[j] \notin ReservedWords
           /\ runs[i].kind \in {"trial", "launch"} =>
                  SelectSeq(runs[i].args, IsNoFlag) = Forwarded
    /\ argv[1] = StrPrintEnv =>
           /\ runs = <<>>
           /\ pc = "done" => term = Return(0, FALSE)

Witness_C33 ==
    /\ argv[1] = StrStrict
    /\ Cardinality(flags) = 2
    /\ Len(runs) = 1
    /\ runs[1].kind = "launch"
    /\ Len(runs[1].args) = Len(argv) + 1

\* ---------------------------------------------------- acquisition state

\* The launcher processes that share one cache directory.
Procs == {"p1", "p2"}
\* The canonical destination paths, filepath.Join(destDir, destFile), that
\* calls are made for; a call's originURL is determined by its destination.
Dests == {<<"dest", 1>>, <<"dest", 2>>}
\* The name ioutil.TempFile(destDir, "download") gives the file of call c of
\* process p: a name no other file has.
TmpName(p, c) == <<"tmp", p, c>>
Names == Dests \cup {TmpName(p, c) : p \in Procs, c \in 1..MaxCalls}

NoFile == [exists |-> FALSE, of |-> <<>>, part |-> "none", exec |-> FALSE]
\* A file holding part ("empty", "partial", "full") of the payload of d's URL.
File(d, part, exec) == [exists |-> TRUE, of |-> d, part |-> part, exec |-> exec]
NoPath == <<>>

AcquireInit ==
    /\ fs = [n \in Names |-> NoFile]
    /\ apc = [p \in Procs |-> "idle"]
    /\ adest = [p \in Procs |-> NoPath]
    /\ acall = [p \in Procs |-> 0]
    /\ agets = [p \in Procs |-> 0]
    /\ afound = [p \in Procs |-> FALSE]
    /\ aresp = [p \in Procs |-> "none"]
    /\ ahist = [p \in Procs |-> <<>>]

CallRecord(d, path, err, gets, found, over, io, resp) ==
    [dest |-> d, path |-> path, err |-> err, gets |-> gets, found |-> found,
     over |-> over, io |-> io, resp |-> resp]

\* The call of p returns (path, err) after the HTTP request was made.
FinishWith(p, path, err, gets, over, io, resp) ==
    /\ apc' = [apc EXCEPT ![p] = "idle"]
    /\ aresp' = [aresp EXCEPT ![p] = "none"]
    /\ ahist' = [ahist EXCEPT ![p] =
                    Append(@, CallRecord(adest[p], path, err, gets, afound[p], over, io,
                                         resp))]

\* The end of a call that got past the status test.
Finish(p, path, err, gets, over, io) ==
    FinishWith(p, path, err, gets, over, io, aresp[p])

\* The deferred function on a path where tmpfile is still open: Close succeeds
\* and the temporary file is removed.
RemoveTmp(p) == [fs EXCEPT ![TmpName(p, acall[p])] = NoFile]

\* The test that decides to download: always.
MustDownloadAlways(file) == TRUE

\* "if _, err := os.Stat(destinationPath); err != nil": download when the
\* destination is missing.
MustDownload(file) == ~file.exists

\* The number of calls begun so far by all callers together; the model follows
\* MaxCalls calls of one caller and MaxCalls + 1 calls in all.
CallsBegun == acall["p1"] + acall["p2"]

\* DownloadBinary up to the HTTP request: MkdirAll, Stat of the destination,
\* and TempFile when the destination is missing. MkdirAll returns nil for a
\* directory that exists, as the directory of an existing destination does.
Start(p) ==
    /\ UNCHANGED notAcquireVars
    /\ apc[p] = "idle"
    /\ acall[p] < MaxCalls
    /\ CallsBegun <= MaxCalls
    /\ \E d \in Dests, mkdirOk \in BOOLEAN, tmpOk \in BOOLEAN :
         /\ fs[d].exists => mkdirOk
         /\ adest' = [adest EXCEPT ![p] = d]
         /\ acall' = [acall EXCEPT ![p] = @ + 1]
         /\ agets' = [agets EXCEPT ![p] = 0]
         /\ afound' = [afound EXCEPT ![p] = mkdirOk /\ fs[d].exists]
         /\ IF ~mkdirOk
            THEN /\ ahist' = [ahist EXCEPT ![p] =
                        Append(@, CallRecord(d, NoPath, TRUE, 0, FALSE, FALSE, TRUE, "none"))]
                 /\ UNCHANGED <<fs, apc>>
            ELSE IF ~MustDownload(fs[d])
            THEN /\ ahist' = [ahist EXCEPT ![p] =
                        Append(@, CallRecord(d, d, FALSE, 0, fs[d].exists, FALSE, FALSE, "none"))]
                 /\ UNCHANGED <<fs, apc>>
            ELSE IF ~tmpOk
            THEN /\ ahist' = [ahist EXCEPT ![p] =
                        Append(@, CallRecord(d, NoPath, TRUE, 0, fs[d].exists, FALSE, TRUE, "none"))]
                 /\ UNCHANGED <<fs, apc>>
            ELSE /\ fs' = [fs EXCEPT ![TmpName(p, acall[p] + 1)] = File(d, "empty", FALSE)]
                 /\ apc' = [apc EXCEPT ![p] = "get"]
                 /\ UNCHANGED ahist
    /\ UNCHANGED aresp

\* The status of the response is not looked at.
GetFailsOnTransportErrorOnly(resp) == resp = "neterr"

\* Whether the request makes DownloadBinary return an error: Get returned an
\* error, or resp.StatusCode != 200.
GetFails(resp) == resp = "neterr" \/ resp # "200"

\* getClient().Get(originURL) and the status test: a transport error and a
\* status other than 200 return an error (the deferred function removes the
\* temporary file); there is no second request.
Get(p) ==
    /\ UNCHANGED notAcquireVars
    /\ apc[p] = "get"
    /\ agets' = [agets EXCEPT ![p] = @ + 1]
    /\ \E resp \in {"neterr", "404", "200"} :
         /\ IF GetFails(resp)
            THEN /\ fs' = RemoveTmp(p)
                 /\ FinishWith(p, NoPath, TRUE, agets[p] + 1, FALSE, TRUE, resp)
            ELSE /\ apc' = [apc EXCEPT ![p] = "copy"]
                 /\ aresp' = [aresp EXCEPT ![p] = resp]
                 /\ UNCHANGED <<fs, ahist>>
    /\ UNCHANGED <<adest, acall, afound>>

\* io.Copy writes into the destination itself.
CopyTargetDest(p) == adest[p]

\* The file io.Copy writes to and os.Chmod changes: tmpfile.
CopyTarget(p) == TmpName(p, acall[p])

\* io.Copy(tmpfile, resp.Body): the body arrives in pieces; the copy may fail
\* after any of them, and DownloadBinary then returns the error.
Copy(p) ==
    /\ UNCHANGED notAcquireVars
    /\ apc[p] = "copy"
    /\ \E step \in {"more", "done", "fail"} :
         CASE step = "more" ->
                /\ fs' = [fs EXCEPT ![CopyTarget(p)] = File(adest[p], "partial", @.exec)]
                /\ UNCHANGED <<apc, aresp, ahist>>
           [] step = "done" ->
                /\ fs' = [fs EXCEPT ![CopyTarget(p)] = File(adest[p], "full", @.exec)]
                /\ apc' = [apc EXCEPT ![p] = "chmod"]
                /\ UNCHANGED <<aresp, ahist>>
           [] OTHER ->
                /\ fs' = RemoveTmp(p)
                /\ Finish(p, NoPath, TRUE, agets[p], FALSE, TRUE)
    /\ UNCHANGED <<adest, acall, agets, afound>>

\* os.Chmod(tmpfile.Name(), 0755)
Chmod(p) ==
    /\ UNCHANGED notAcquireVars
    /\ apc[p] = "chmod"
    /\ \E ok \in BOOLEAN :
         IF ok
         THEN /\ fs' = [fs EXCEPT ![CopyTarget(p)] = [@ EXCEPT !.exec = TRUE]]
              /\ apc' = [apc EXCEPT ![p] = "rename"]
              /\ UNCHANGED <<aresp, ahist>>
         ELSE /\ fs' = RemoveTmp(p)
              /\ Finish(p, NoPath, TRUE, agets[p], FALSE, TRUE)
    /\ UNCHANGED <<adest, acall, agets, afound>>

\* A rename that refuses to replace an existing destination.
RenameErrorIfTargetExists(targetExists, ioErr) == ioErr \/ targetExists

\* Whether os.Rename(tmpfile.Name(), destinationPath) returns an error: only
\* for a failure of its own; an existing destination is replaced.
RenameError(targetExists, ioErr) == ioErr

\* tmpfile.Close(), os.Rename(tmpfile.Name(), destinationPath) and the return.
\* The deferred Close then fails (the file is closed already), so the deferred
\* function removes nothing: after a failed rename the temporary file stays.
Rename(p) ==
    /\ UNCHANGED notAcquireVars
    /\ apc[p] = "rename"
    /\ \E ioErr \in BOOLEAN :
         IF RenameError(fs[adest[p]].exists, ioErr)
         THEN /\ Finish(p, NoPath, TRUE, agets[p], fs[adest[p]].exists, ioErr)
              /\ UNCHANGED fs
         ELSE /\ fs' = [fs EXCEPT ![adest[p]] = fs[TmpName(p, acall[p])],
                                  ![TmpName(p, acall[p])] = NoFile]
              /\ Finish(p, adest[p], FALSE, agets[p], fs[adest[p]].exists, FALSE)
    /\ UNCHANGED <<adest, acall, agets, afound>>

\* The process is killed in the middle of a call: nothing is cleaned up.
Crash(p) ==
    /\ UNCHANGED notAcquireVars
    /\ apc[p] \in {"get", "copy", "chmod", "rename"}
    /\ apc' = [apc EXCEPT ![p] = "crashed"]
    /\ UNCHANGED <<fs, adest, acall, agets, afound, aresp, ahist>>

AcquireNext ==
    \E p \in Procs : Start(p) \/ Get(p) \/ Copy(p) \/ Chmod(p) \/ Rename(p) \/ Crash(p)

\* ---------------------------------------------------- acquisition claims

\* The payload of d's URL, complete and executable.
Complete(file, d) == file.exists /\ file.of = d /\ file.part = "full" /\ file.exec
Others(p) == Procs \ {p}

\* C8: a call whose Stat finds the destination makes no HTTP request and
\* returns the destination path; of two calls of one process for the same
\* destination of which the first succeeded, the second makes no request and
\* returns the same path, and with no other process at work the two calls
\* make exactly one request in total: the one of the first call, which found
\* the destination missing (none at all if the destination was there before).
Inv_C8_AtMostOneDownloadPerDestination ==
    \A p \in Procs :
        /\ (afound[p] /\ acall[p] > 0) => (agets[p] = 0 /\ apc[p] = "idle")
        /\ \A j \in 1..Len(ahist[p]) :
             /\ ahist[p][j].found =>
                  /\ ahist[p][j].gets = 0
                  /\ ahist[p][j].path = ahist[p][j].dest
                  /\ ~ahist[p][j].err
             /\ \A i \in 1..(j - 1) :
                  (ahist[p][i].dest = ahist[p][j].dest /\ ~ahist[p][i].err) =>
                    /\ ahist[p][j].gets = 0
                    /\ ~ahist[p][j].err
                    /\ ahist[p][j].path = ahist[p][i].path
                    /\ ahist[p][i].gets + ahist[p][j].gets =
                         (IF ahist[p][i].found THEN 0 ELSE 1)
                    /\ (i = 1 /\ \A q \in Others(p) : acall[q] = 0) =>
                         (~ahist[p][i].found /\ ahist[p][i].gets + ahist[p][j].gets = 1)

Witness_C8 ==
    \E p \in Procs :
        /\ \A q \in Others(p) : acall[q] = 0
        /\ Len(ahist[p]) = 2
        /\ ahist[p][1].dest = ahist[p][2].dest
        /\ ~ahist[p][1].err /\ ahist[p][1].gets = 1
        /\ ~ahist[p][2].err /\ ahist[p][2].gets = 0
        /\ ahist[p][2].path = ahist[p][1].path

\* C9: in every state a file at a canonical destination path holds the whole
\* payload and is executable; empty, partial and non-executable content is
\* only ever under a temporary name.
Inv_C9_DestinationCompleteAndExecutable ==
    \A d \in Dests : fs[d].exists => Complete(fs[d], d)

Witness_C9 ==
    \E d \in Dests, p \in Procs, q \in Procs :
        /\ fs[d].exists
        /\ apc[p] = "crashed" /\ adest[p] = d
        /\ fs[TmpName(p, acall[p])].part = "partial"
        /\ q # p /\ Len(ahist[q]) = 1 /\ ahist[q][1].dest = d /\ ~ahist[q][1].err

\* C10: a call that saw the destination missing and, at its rename, finds it
\* present (another acquirer renamed first) returns the destination path and
\* no error unless the rename fails for a reason of its own; the destination
\* then still holds the complete payload.
Inv_C10_SecondRenameSucceeds ==
    \A p \in Procs : \A j \in 1..Len(ahist[p]) :
        (ahist[p][j].over /\ ~ahist[p][j].io) =>
            /\ ~ahist[p][j].err
            /\ ahist[p][j].path = ahist[p][j].dest
            /\ ~ahist[p][j].found
            /\ ahist[p][j].gets = 1
            /\ Complete(fs[ahist[p][j].dest], ahist[p][j].dest)

Witness_C10 ==
    \E p \in Procs, q \in Procs :
        /\ p # q
        /\ Len(ahist[p]) = 1 /\ Len(ahist[q]) = 1
        /\ ahist[p][1].dest = ahist[q][1].dest
        /\ ahist[p][1].gets = 1 /\ ahist[q][1].gets = 1
        /\ ~ahist[p][1].err /\ ~ahist[q][1].err
        /\ ~ahist[p][1].over /\ ahist[q][1].over
        /\ ahist[p][1].path = ahist[q][1].path

\* The request of the call failed: a transport error or a status other than 200.
HttpFailed(h) == h.resp \in {"neterr", "404"}

\* C11: a call whose request meets a transport error or a status other than
\* 200 returns an error after exactly one request, and leaves neither its
\* temporary file nor a file at the destination: a destination exists only
\* where some call's download succeeded. The next call for that destination
\* (no other process at work) finds it missing and downloads again.
Inv_C11_DownloadFailureIsFinalAndLeavesNothing ==
    /\ \A p \in Procs : \A j \in 1..Len(ahist[p]) :
         HttpFailed(ahist[p][j]) =>
           /\ ahist[p][j].err /\ ahist[p][j].path = NoPath
           /\ ahist[p][j].gets = 1
           /\ ~fs[TmpName(p, j)].exists
           /\ (j < Len(ahist[p]) /\ ahist[p][j + 1].dest = ahist[p][j].dest
                 /\ \A q \in Others(p) : acall[q] = 0)
              => /\ ~ahist[p][j + 1].found
                 /\ \/ ahist[p][j + 1].gets = 1
                    \/ ahist[p][j + 1].err /\ ahist[p][j + 1].resp = "none"
    /\ \A p \in Procs : agets[p] <= 1
    /\ \A d \in Dests :
         fs[d].exists =>
           \E q \in Procs : \E k \in 1..Len(ahist[q]) :
               /\ ahist[q][k].dest = d /\ ~ahist[q][k].err
               /\ ahist[q][k].resp = "200" /\ ahist[q][k].gets = 1

Witness_C11 ==
    \E p \in Procs :
        /\ \A q \in Others(p) : acall[q] = 0
        /\ Len(ahist[p]) = 2
        /\ ahist[p][1].resp = "404" /\ ahist[p][1].err
        /\ ahist[p][2].dest = ahist[p][1].dest
        /\ ahist[p][2].resp = "200" /\ ~ahist[p][2].err

\* ------------------------------------------------- the metadata cache

\* The processes that ask for the metadata key.
MProcs == {"r1", "r2"}

\* What the remote end can serve for the key.
Bodies == {"v1", "v2"}

NoMeta == [exists |-> FALSE, content |-> "none", mtime |-> 0]

NoCall == [statOk |-> FALSE, age |-> 0, t0 |-> 0, body |-> "none"]

MetaInit ==
    /\ mfile = NoMeta
    /\ now = 0
    /\ mpc = [p \in MProcs |-> "idle"]
    /\ mcall = [p \in MProcs |-> 0]
    /\ mcur = [p \in MProcs |-> NoCall]
    /\ mhist = [p \in MProcs |-> <<>>]

\* The return of MaybeDownload: (res, err), with what the call did.
MFinish(p, fetches, err, res) ==
    /\ mpc' = [mpc EXCEPT ![p] = "idle"]
    /\ mcur' = [mcur EXCEPT ![p] = NoCall]
    /\ mhist' = [mhist EXCEPT ![p] =
                   Append(@, [statOk |-> mcur[p].statOk, age |-> mcur[p].age,
                              t0 |-> mcur[p].t0, t1 |-> now,
                              fetches |-> fetches, err |-> err, res |-> res])]

\* The calls of MaybeDownload begun so far; the model follows MaxRequests
\* calls of one process and one call more than there are processes in all.
RequestsBegun == mcall["r1"] + mcall["r2"]

\* The cache file counts as fresh up to and including the full hour.
FreshInclusive(age) == age <= TicksPerHour

\* time.Since(cacheStat.ModTime()).Hours() < 1
Fresh(age) == age < TicksPerHour

\* Time passes.
Tick ==
    /\ UNCHANGED notMetaVars
    /\ now < MaxTime
    /\ now' = now + 1
    /\ UNCHANGED <<mfile, mpc, mcall, mcur, mhist>>

\* os.Stat(cachePath) and the age test: a fresh file is read, anything else
\* is fetched.
MStat(p) ==
    /\ UNCHANGED notMetaVars
    /\ mpc[p] = "idle"
    /\ mcall[p] < MaxRequests
    /\ RequestsBegun <= Cardinality(MProcs)
    /\ mcall' = [mcall EXCEPT ![p] = @ + 1]
    /\ mcur' = [mcur EXCEPT ![p] =
                  [statOk |-> mfile.exists,
                   age |-> IF mfile.exists THEN now - mfile.mtime ELSE 0,
                   t0 |-> now, body |-> "none"]]
    /\ mpc' = [mpc EXCEPT ![p] =
                 IF mfile.exists /\ Fresh(now - mfile.mtime) THEN "readfile" ELSE "fetch"]
    /\ UNCHANGED <<mfile, now, mhist>>

\* ioutil.ReadFile(cachePath): what the file holds now, or an error; no fetch
\* follows an error.
MReadFile(p) ==
    /\ UNCHANGED notMetaVars
    /\ mpc[p] = "readfile"
    /\ \E ok \in BOOLEAN :
         IF ok THEN MFinish(p, 0, FALSE, mfile.content)
               ELSE MFinish(p, 0, TRUE, "nil")
    /\ UNCHANGED <<mfile, now, mcall>>

\* readRemoteFile(url, token): the body or an error.
MFetch(p) ==
    /\ UNCHANGED notMetaVars
    /\ mpc[p] = "fetch"
    /\ \/ MFinish(p, 1, TRUE, "nil")
       \/ \E b \in Bodies :
            /\ mcur' = [mcur EXCEPT ![p].body = b]
            /\ mpc' = [mpc EXCEPT ![p] = "open"]
            /\ UNCHANGED mhist
    /\ UNCHANGED <<mfile, now, mcall>>

\* ioutil.WriteFile(cachePath, body, 0666), its first half: OpenFile with
\* O_WRONLY|O_CREATE|O_TRUNC creates the file or empties the one that is there,
\* under the final name.
MOpen(p) ==
    /\ UNCHANGED notMetaVars
    /\ mpc[p] = "open"
    /\ \E ok \in BOOLEAN :
         IF ok
         THEN /\ mfile' = [exists |-> TRUE, content |-> "empty", mtime |-> now]
              /\ mpc' = [mpc EXCEPT ![p] = "write"]
              /\ UNCHANGED <<mhist, mcur>>
         ELSE /\ MFinish(p, 1, TRUE, "nil")
              /\ UNCHANGED mfile
    /\ UNCHANGED <<now, mcall>>

\* ioutil.WriteFile, its second half: Write(data) and Close.
MWrite(p) ==
    /\ UNCHANGED notMetaVars
    /\ mpc[p] = "write"
    /\ \E ok \in BOOLEAN :
         IF ok
         THEN /\ mfile' = [exists |-> TRUE, content |-> mcur[p].body, mtime |-> now]
              /\ MFinish(p, 1, FALSE, mcur[p].body)
         ELSE /\ MFinish(p, 1, TRUE, "nil")
              /\ UNCHANGED mfile
    /\ UNCHANGED <<now, mcall>>

MetaNext ==
    \/ Tick
    \/ \E p \in MProcs : MStat(p) \/ MReadFile(p) \/ MFetch(p) \/ MOpen(p) \/ MWrite(p)

MOthers(p) == MProcs \ {p}

\* C12: a call makes no fetch exactly when Stat found the file and its
\* modification time was less than an hour old, and never more than one
\* fetch; a call that fetched and returned no error returns a fetched body,
\* and the same process's next call, begun less than an hour after it, makes
\* no fetch and (nobody else writing, the read succeeding) returns that body.
Inv_C12_CacheServedExactlyWhenFresh ==
    \A p \in MProcs : \A j \in 1..Len(mhist[p]) :
        /\ mhist[p][j].fetches = 0
             <=> (mhist[p][j].statOk /\ mhist[p][j].age < TicksPerHour)
        /\ mhist[p][j].fetches <= 1
        /\ (mhist[p][j].fetches = 1 /\ ~mhist[p][j].err) =>
             /\ mhist[p][j].res \in Bodies
             /\ (\A q \in MOthers(p) : mcall[q] = 0) /\ j = Len(mhist[p])
                  /\ mpc[p] = "idle"
                => mfile = [exists |-> TRUE, content |-> mhist[p][j].res,
                            mtime |-> mhist[p][j].t1]
             /\ (j < Len(mhist[p])
                   /\ mhist[p][j + 1].t0 - mhist[p][j].t1 < TicksPerHour)
                => /\ mhist[p][j + 1].fetches = 0
                   /\ ((\A q \in MOthers(p) : mcall[q] = 0) /\ ~mhist[p][j + 1].err)
                        => mhist[p][j + 1].res = mhist[p][j].res

Witness_C12 ==
    \E p \in MProcs :
        /\ \A q \in MOthers(p) : mcall[q] = 0
        /\ Len(mhist[p]) = 2
        /\ mhist[p][1].fetches = 1 /\ ~mhist[p][1].err
        /\ mhist[p][2].t0 > mhist[p][1].t1
        /\ mhist[p][2].fetches = 0 /\ ~mhist[p][2].err
        /\ mhist[p][2].res = mhist[p][1].res

\* C13: a reader that is served from the cache file never gets a half-written
\* file: what it reads is a whole body some writer fetched.
Inv_C13_ReaderNeverSeesHalfWrittenFile ==
    \A p \in MProcs : \A j \in 1..Len(mhist[p]) :
        (mhist[p][j].fetches = 0 /\ ~mhist[p][j].err) => mhist[p][j].res \in Bodies

\* ------------------------------------------------ exit code and error

\* C17: a child that started and exited with status k makes runBazel return
\* (k, nil), for k = 0 and for every other k, and the launch of RunBazelisk
\* that ran it returns (k, nil) as well.
Inv_C17_ExitCodePropagatedUnchanged ==
    /\ \A k \in 0..MaxExitCode :
         runBazelReturn([how |-> "exited", status |-> k]) = [code |-> k, err |-> FALSE]
    /\ \A i \in 1..Len(runs) : \A k \in 0..MaxExitCode :
         (runs[i].kind = "launch" /\ ExitedWith(runs[i], k)) => term = Return(k, FALSE)

Witness_C17 ==
    \E i \in 1..Len(runs) :
        /\ runs[i].kind = "launch" /\ ExitedWith(runs[i], MaxExitCode)
        /\ term = Return(MaxExitCode, FALSE)

\* ---------------------------------------------- runBazel and signals

\* The sequential runBazel calls of one launcher: a first call and the one
\* after it, as in the loop of migrate.
Runs == {1, 2}

\* os.Interrupt and syscall.SIGTERM
Signals == {"INT", "TERM"}

NoOutcome == [how |-> "none", status |-> 0]

NoReturn == [set |-> FALSE, code |-> 0, err |-> FALSE]

Returned(r) == [set |-> TRUE, code |-> r.code, err |-> r.err]

\* No runBazel call has begun.
SignalStart ==
    /\ rcall = 0
    /\ rpc = "idle"
    /\ child = [k \in Runs |-> "none"]
    /\ cout = [k \in Runs |-> NoOutcome]
    /\ rret = [k \in Runs |-> NoReturn]
    /\ notified = {}
    /\ lst = [k \in Runs |-> "none"]
    /\ lsig = [k \in Runs |-> 0]
    /\ siglog = <<>>
    /\ chgot = [k \in Runs |-> {}]

SignalIdle == goos = "linux" /\ SignalStart

SignalInit == goos \in {"linux", "windows"} /\ SignalStart

\* cmd.Start(): an error returns (1, err) at once.
RStart ==
    /\ UNCHANGED notSignalVars
    /\ rpc = "idle"
    /\ rcall + 1 \in Runs
    /\ rcall' = rcall + 1
    /\ \E ok \in BOOLEAN :
         IF ok
         THEN /\ child' = [child EXCEPT ![rcall + 1] = "running"]
              /\ rpc' = "notify"
              /\ UNCHANGED rret
         ELSE /\ rret' = [rret EXCEPT ![rcall + 1] =
                            Returned(runBazelReturn([how |-> "nostart", status |-> 0]))]
              /\ UNCHANGED <<child, rpc>>
    /\ UNCHANGED <<goos, cout, notified, lst, lsig, siglog, chgot>>

\* c := make(chan os.Signal); signal.Notify(c, os.Interrupt, syscall.SIGTERM).
\* The registration is never undone.
RNotify ==
    /\ UNCHANGED notSignalVars
    /\ rpc = "notify"
    /\ notified' = notified \cup {rcall}
    /\ rpc' = "spawn"
    /\ UNCHANGED <<goos, rcall, child, cout, rret, lst, lsig, siglog, chgot>>

\* go func() {...}(): the goroutine exists but has not run yet.
RSpawn ==
    /\ UNCHANGED notSignalVars
    /\ rpc = "spawn"
    /\ lst' = [lst EXCEPT ![rcall] = "created"]
    /\ rpc' = "wait"
    /\ UNCHANGED <<goos, rcall, child, cout, rret, notified, lsig, siglog, chgot>>

\* The listener gets to s := <-c and blocks there.
LReady(k) ==
    /\ UNCHANGED notSignalVars
    /\ rpc # "killed"
    /\ lst[k] = "created"
    /\ lst' = [lst EXCEPT ![k] = "recv"]
    /\ UNCHANGED <<goos, rcall, rpc, child, cout, rret, notified, lsig, siglog, chgot>>

\* A signal arrives at the launcher. With no channel registered the default
\* action ends the launcher. Otherwise package signal sends it to every
\* registered channel without blocking: the channels are unbuffered, so a
\* listener gets it only if it is blocked in the receive just then.
Deliver(s) ==
    /\ UNCHANGED notSignalVars
    /\ rpc # "killed"
    /\ Len(siglog) < MaxSignals
    /\ siglog' = Append(siglog,
                   [sig |-> s, call |-> rcall,
                    running |-> rcall >= 1 /\ child[rcall] = "running",
                    exited |-> rcall >= 1 /\ child[rcall] \in {"exited", "reaped"},
                    listening |-> rcall \in notified])
    /\ IF notified = {}
       THEN /\ rpc' = "killed"
            /\ UNCHANGED <<lst, lsig>>
       ELSE /\ lst' = [k \in Runs |-> IF lst[k] = "recv" THEN "got" ELSE lst[k]]
            /\ lsig' = [k \in Runs |-> IF lst[k] = "recv" THEN Len(siglog) + 1 ELSE lsig[k]]
            /\ UNCHANGED rpc
    /\ UNCHANGED <<goos, rcall, child, cout, rret, notified, chgot>>

\* The signal reaches the child although it has ended.
ProcessSignalAlways(st) == st # "none"

\* cmd.Process.Signal(s) and cmd.Process.Kill(): the signal reaches the child
\* if it runs; a child that has ended gets nothing (Signal returns an error
\* once Wait has returned, and a signal sent to a zombie has no effect).
ProcessSignal(st) == st = "running"

\* The listener forwards what it received and goes back to the receive.
LForwardLoop(k) ==
    /\ UNCHANGED notSignalVars
    /\ rpc # "killed"
    /\ lst[k] = "got"
    /\ lst' = [lst EXCEPT ![k] = "recv"]
    /\ chgot' = [chgot EXCEPT ![k] =
                   IF ProcessSignal(child[k]) THEN @ \cup {lsig[k]} ELSE @]
    /\ UNCHANGED <<goos, rcall, rpc, child, cout, rret, notified, lsig, siglog>>

\* The listener forwards what it received to the child of its own call and
\* ends; the result of Signal or Kill is dropped.
LForward(k) ==
    /\ UNCHANGED notSignalVars
    /\ rpc # "killed"
    /\ lst[k] = "got"
    /\ lst' = [lst EXCEPT ![k] = "done"]
    /\ chgot' = [chgot EXCEPT ![k] =
                   IF ProcessSignal(child[k]) THEN @ \cup {lsig[k]} ELSE @]
    /\ UNCHANGED <<goos, rcall, rpc, child, cout, rret, notified, lsig, siglog>>

\* How a started child ends: it exits with status 0, exits with a failure
\* status, or is ended by a signal.
ChildEnds ==
    {[how |-> "exited", status |-> 0], [how |-> "exited", status |-> MaxExitCode],
     [how |-> "signaled", status |-> 0]}

\* The child ends, by exiting or by a signal.
ChildExit(k) ==
    /\ UNCHANGED notSignalVars
    /\ child[k] = "running"
    /\ child' = [child EXCEPT ![k] = "exited"]
    /\ \E o \in ChildEnds : cout' = [cout EXCEPT ![k] = o]
    /\ UNCHANGED <<goos, rcall, rpc, rret, notified, lst, lsig, siglog, chgot>>

\* cmd.Wait() returns once the child has ended, and runBazel returns.
RWait ==
    /\ UNCHANGED notSignalVars
    /\ rpc = "wait"
    /\ child[rcall] = "exited"
    /\ child' = [child EXCEPT ![rcall] = "reaped"]
    /\ \E waitOk \in BOOLEAN :
         rret' = [rret EXCEPT ![rcall] =
                    Returned(runBazelReturn(IF waitOk THEN cout[rcall]
                                            ELSE [how |-> "waiterr", status |-> 0]))]
    /\ rpc' = "idle"
    /\ UNCHANGED <<goos, rcall, cout, notified, lst, lsig, siglog, chgot>>

SignalNext ==
    \/ RStart \/ RNotify \/ RSpawn \/ RWait
    \/ \E k \in Runs : LReady(k) \/ LForward(k) \/ ChildExit(k)
    \/ \E s \in Signals : Deliver(s)

\* C14: on a platform other than Windows, once a call has returned, its
\* child has been sent every signal that reached the launcher while that
\* child ran.
Inv_C14_SignalWhileRunningReachesChild ==
    \A i \in 1..Len(siglog) :
        (goos # "windows" /\ siglog[i].running /\ rret[siglog[i].call].set)
            => i \in chgot[siglog[i].call]

\* C15: a signal that arrives when the child of the current call has ended
\* (its listener's channel being registered) reaches no child, does not end
\* the launcher, and the call returns what the child's own end gives.
Inv_C15_LateSignalIsNoOp ==
    \A i \in 1..Len(siglog) :
        (siglog[i].exited /\ siglog[i].listening) =>
            /\ \A k \in Runs : i \notin chgot[k]
            /\ rpc # "killed"
            /\ (rret[siglog[i].call].set /\ ~rret[siglog[i].call].err) =>
                 rret[siglog[i].call].code =
                     IF cout[siglog[i].call].how = "exited"
                     THEN cout[siglog[i].call].status ELSE -1

Witness_C15 ==
    \E i \in 1..Len(siglog) : \E k \in Runs :
        /\ siglog[i].exited /\ siglog[i].listening /\ siglog[i].call = k
        /\ lst[k] = "done" /\ lsig[k] = i
        /\ rret[k].set /\ ~rret[k].err /\ rret[k].code = MaxExitCode

\* C16: once a call has returned, its listener has ended: none is left
\* that a later signal could wake.
Inv_C16_NoListenerOutlivesItsCall ==
    \A k \in Runs :
        (rret[k].set /\ rpc # "killed") => lst[k] \in {"none", "done"}

\* C18: a call of runBazel returns an error only if its child was never
\* started.
Inv_C18_ErrorOnlyWhenStartFails ==
    \A k \in Runs : (rret[k].set /\ rret[k].err) => child[k] = "none"

\* C38: the child of a call is sent at most one signal by the listener of
\* that call, the one the listener took from the channel, and the listener
\* has finished by then.
Inv_C38_ListenerForwardsAtMostOnce ==
    \A k \in Runs :
        /\ Cardinality(chgot[k]) <= 1
        /\ chgot[k] \subseteq {lsig[k]}
        /\ chgot[k] # {} => lst[k] = "done"
        /\ lst[k] = "done" =>
               \A i \in 1..Len(siglog) : i > lsig[k] => i \notin chgot[k]

Witness_C38 ==
    \E k \in Runs :
        /\ lst[k] = "done"
        /\ chgot[k] = {1}
        /\ child[k] = "running"
        /\ Len(siglog) = 2
        /\ siglog[2].running
        /\ siglog[2].call = k

\* ---------------------------------------------------- launch planning

\* The resolved Bazel binary and filepath.Join(root, "./tools/bazel").
BazelPath == "bazel"
WrapperPath == "wrapper"

\* The execute bits of a file mode: owner (0100), group (0010), others (0001).
ExecBits == {"u", "g", "o"}

\* What os.Stat can find at the wrapper path.
WrapperFiles ==
    {[exists |-> FALSE, dir |-> FALSE, mode |-> {}]}
    \cup {[exists |-> TRUE, dir |-> d, mode |-> m] : d \in BOOLEAN, m \in SUBSET ExecBits}

\* The working directory and its ancestors: 0 is the filesystem root, each
\* directory's parent is the one before it, and the launcher runs in Cwd.
Dirs == 0..MaxDepth
Cwd == MaxDepth

\* What os.Stat finds where there is no file.
NoWrapper == [exists |-> FALSE, dir |-> FALSE, mode |-> {}]

\* A process of the chain with the two variables of its environment.
Proc(kind, skip, real) == [kind |-> kind, skip |-> skip, real |-> real]

\* A chain begins with a launcher started by a user, who may have set
\* BAZELISK_SKIP_WRAPPER; the wrapper file and .bazeliskrc are as they are.
PlanStart(files, values) ==
    /\ wfile \in files
    /\ wdir \in (IF wfile.exists /\ files # {NoWrapper} THEN Dirs ELSE {Cwd})
    /\ marked \in (IF files # {NoWrapper} THEN SUBSET Dirs ELSE {{}})
    /\ rcSkip \in values
    /\ \E v \in values : chain = <<Proc("launcher", v, "")>>
    /\ plans = <<>>

PlanIdle == PlanStart({NoWrapper}, {""})

PlanInit == PlanStart(WrapperFiles, {"", "true"})

\* getEnvOrConfig: the environment's value unless it is empty, else the
\* value of .bazeliskrc.
getEnvOrConfig(envVal, rcVal) == IF envVal # "" THEN envVal ELSE rcVal

\* findWorkspaceRoot: the nearest directory upward from d that holds a marker,
\* as a string of one directory, or the empty string if there is none
\* (filepath.Dir of the filesystem root is the root itself).
RECURSIVE findWorkspaceRoot(_)
findWorkspaceRoot(d) ==
    IF d \in marked THEN <<d>>
    ELSE IF d = 0 THEN <<>>
    ELSE findWorkspaceRoot(d - 1)

\* The directory in which os.Stat looks up filepath.Join(root, "./tools/bazel"):
\* with root = "" the joined path is the relative "tools/bazel", which the
\* process resolves in its working directory.
WrapperDir(root) == IF root = <<>> THEN Cwd ELSE root[1]

\* os.Stat(wrapper)
StatWrapper(root) == IF WrapperDir(root) = wdir THEN wfile ELSE NoWrapper

\* maybeDelegateToWrapper: the path to execute.
maybeDelegateToWrapper(bazel, skip, getwdOk, w) ==
    IF skip # "" THEN bazel
    ELSE IF ~getwdOk THEN bazel
    ELSE IF ~w.exists \/ w.dir \/ "o" \notin w.mode THEN bazel
    ELSE WrapperPath

\* The child inherits the launcher's value of the skip-wrapper variable.
childSkipInherited(inherited) == inherited

\* append(os.Environ(), skipWrapperEnv+"=true"): the last entry of a name is
\* the one the child gets, whatever was inherited.
childSkip(inherited) == "true"

\* makeBazelCmd in the innermost process, a launcher that has not planned
\* yet, and the start of the command it made.
Plan ==
    /\ UNCHANGED notPlanVars
    /\ Len(plans) < MaxNesting
    /\ chain[Len(chain)].kind = "launcher"
    /\ \E getwdOk \in BOOLEAN :
         LET me == chain[Len(chain)]
             skip == getEnvOrConfig(me.skip, rcSkip)
             root == findWorkspaceRoot(Cwd)
             stat == StatWrapper(root)
             execPath == maybeDelegateToWrapper(BazelPath, skip, getwdOk, stat)
             added == execPath # BazelPath
         IN /\ plans' = Append(plans,
                          [skip |-> skip, getwdOk |-> getwdOk, target |-> execPath,
                           root |-> root, stat |-> stat,
                           added |-> added,
                           real |-> IF added THEN BazelPath ELSE me.real,
                           childSkip |-> childSkip(me.skip)])
            /\ chain' = Append(chain,
                          Proc(IF execPath = WrapperPath THEN "wrapper" ELSE "bazel",
                               childSkip(me.skip),
                               IF added THEN BazelPath ELSE me.real))
    /\ UNCHANGED <<wfile, wdir, marked, rcSkip>>

\* The wrapper script runs the launcher again, or the real binary, with the
\* environment it was given.
WrapperRuns ==
    /\ UNCHANGED notPlanVars
    /\ chain[Len(chain)].kind = "wrapper"
    /\ \E next \in {"launcher", "bazel"} :
         chain' = Append(chain, Proc(next, chain[Len(chain)].skip, chain[Len(chain)].real))
    /\ UNCHANGED <<wfile, wdir, marked, rcSkip, plans>>

PlanNext == Plan \/ WrapperRuns

\* The wrapper script is there and executable.
WrapperUsable(w) == w.exists /\ ~w.dir /\ w.mode # {}

\* C19: a launcher (that knows its working directory) targets the wrapper and
\* adds BAZEL_REAL = the resolved binary exactly when the skip-wrapper flag is
\* unset and the wrapper exists, is no directory and has an execute
\* permission bit; otherwise it targets the binary and adds no BAZEL_REAL.
Inv_C19_DelegatesExactlyToUsableWrapper ==
    \A i \in 1..Len(plans) :
        plans[i].getwdOk =>
            IF plans[i].skip = "" /\ WrapperUsable(plans[i].stat)
            THEN plans[i].target = WrapperPath /\ plans[i].added
                 /\ plans[i].real = BazelPath
            ELSE plans[i].target = BazelPath /\ ~plans[i].added

\* C20: every child is given the skip-wrapper flag, a launcher that sees the
\* flag targets the binary, and in a chain of nested invocations at most one
\* launcher targets the wrapper.
Inv_C20_WrapperDelegatedAtMostOnce ==
    /\ \A i \in 1..Len(plans) :
         /\ plans[i].childSkip # ""
         /\ plans[i].skip # "" => plans[i].target = BazelPath
    /\ \A i \in 2..Len(chain) : chain[i].skip # ""
    /\ Cardinality({i \in 1..Len(plans) : plans[i].target = WrapperPath}) <= 1

Witness_C20 ==
    /\ Len(plans) = 2
    /\ plans[1].target = WrapperPath
    /\ plans[2].target = BazelPath /\ plans[2].getwdOk
    /\ rcSkip = ""
    /\ chain[Len(chain)].kind = "bazel"

\* C21: a launcher that finds no project-root marker in its working
\* directory or above it targets the resolved binary, whatever files there
\* are in the working directory.
Inv_C21_NoRootNoWrapper ==
    \A i \in 1..Len(plans) :
        plans[i].root = <<>> => plans[i].target = BazelPath

\* ------------------------------------------------ the child's environment

\* An entry of an environment is a string NAME=value; a string is a sequence
\* of tokens: a variable's name, "=", and the characters of values.
EnvNames == {"PATH", "HOME"}
ValueChars == {"a", "="}

RECURSIVE StringsUpTo(_, _)
StringsUpTo(chars, n) ==
    IF n = 0 THEN {<<>>}
    ELSE LET shorter == StringsUpTo(chars, n - 1)
         IN shorter \cup {Append(s, c) : s \in shorter, c \in chars}

Values == StringsUpTo(ValueChars, MaxValLen)

Entry(name, value) == <<name, "=">> \o value

\* The environments a launcher is started with: every name at most once.
Environs ==
    {<<>>}
    \cup {<<Entry(n, v)>> : n \in EnvNames, v \in Values}
    \cup {<<Entry(p[1], v), Entry(p[2], w)>> :
            p \in {q \in EnvNames \X EnvNames : q[1] # q[2]}, v \in Values, w \in Values}

\* strings.Split(s, sep) for a one-token separator.
RECURSIVE Split(_, _)
Split(s, sep) ==
    IF \A i \in 1..Len(s) : s[i] # sep THEN <<s>>
    ELSE LET i == CHOOSE j \in 1..Len(s) :
                      s[j] = sep /\ \A k \in 1..(j - 1) : s[k] # sep
         IN <<SubSeq(s, 1, i - 1)>> \o Split(SubSeq(s, i + 1, Len(s)), sep)

\* filepath.Dir(execPath) and string(os.PathListSeparator)
ExecDir == <<"dir">>
ListSep == <<":">>

\* prependDirToPathList: the loop from entry at on, and the append after it.
RECURSIVE prependFrom(_, _, _)
prependFrom(env, at, dir) ==
    IF at > Len(env) THEN Append(env, Entry("PATH", dir))
    ELSE LET splits == Split(env[at], "=")
         IN IF Len(splits) # 2 THEN prependFrom(env, at + 1, dir)
            ELSE IF splits[1] = <<"PATH">>
            THEN [env EXCEPT ![at] = Entry("PATH", dir \o ListSep \o splits[2])]
            ELSE prependFrom(env, at + 1, dir)

prependDirToPathList(env, dir) == prependFrom(env, 1, dir)

\* cmd.Env before the prepend: os.Environ() and BAZELISK_SKIP_WRAPPER=true.
BaseEnv(env) == Append(env, Entry("SKIP", <<"true">>))

EnvIdle == penv = <<>> /\ cenv = <<>>

EnvInit == penv \in Environs /\ cenv = <<>>

\* makeBazelCmd builds the environment of the child.
MakeEnv ==
    /\ UNCHANGED notEnvVars
    /\ cenv = <<>>
    /\ cenv' = prependDirToPathList(BaseEnv(penv), ExecDir)
    /\ UNCHANGED penv

EnvNext == MakeEnv

\* The name of an entry and its value: the text before and after the first "=".
NameOf(entry) == Split(entry, "=")[1]
ValueOf(entry) == SubSeq(entry, Len(NameOf(entry)) + 2, Len(entry))
Has(env, name) == \E i \in 1..Len(env) : NameOf(env[i]) = <<name>>
\* The value a process gets for a name: that of the last entry of the name.
Lookup(env, name) ==
    ValueOf(env[CHOOSE i \in 1..Len(env) :
                  /\ NameOf(env[i]) = <<name>>
                  /\ \A j \in (i + 1)..Len(env) : NameOf(env[j]) # <<name>>])

\* C22: the child's PATH is the executable's directory, the separator and the
\* parent's PATH (the directory alone if the parent has no PATH), and every
\* other variable of the child is as it was before the prepend.
Inv_C22_PathPrependedOnly ==
    cenv # <<>> =>
        /\ Has(cenv, "PATH")
        /\ Lookup(cenv, "PATH") =
               IF Has(penv, "PATH") THEN ExecDir \o ListSep \o Lookup(penv, "PATH")
               ELSE ExecDir
        /\ \A n \in {"HOME", "SKIP"} :
               /\ Has(cenv, n) <=> Has(BaseEnv(penv), n)
               /\ Has(cenv, n) => Lookup(cenv, n) = Lookup(BaseEnv(penv), n)

\* ------------------------------------------------------ version resolution

\* Version specifiers and labels are strings of one-character tokens.
DigitChars == <<"0", "1", "2", "3", "4", "5", "6", "7", "8", "9">>
IsDigit(c) == \E d \in 1..10 : DigitChars[d] = c
DigitVal(c) == (CHOOSE d \in 1..10 : DigitChars[d] = c) - 1
AllDigits(s) == s # <<>> /\ \A i \in 1..Len(s) : IsDigit(s[i])

\* strconv.Atoi on a string of digits.
RECURSIVE Atoi(_)
Atoi(s) ==
    IF Len(s) = 1 THEN DigitVal(s[1])
    ELSE 10 * Atoi(SubSeq(s, 1, Len(s) - 1)) + DigitVal(s[Len(s)])

\* The decimal text of n, as fmt's %d prints it.
RECURSIVE Itoa(_)
Itoa(n) ==
    IF n < 10 THEN <<DigitChars[n + 1]>>
    ELSE Append(Itoa(n \div 10), DigitChars[(n % 10) + 1])

\* core.BazelUpstream, the name of the upstream fork.
BazelUpstream == <<"bazelbuild">>

\* The specifiers a user writes: fork and version text around separators.
SpecifierChars == {"f", "v", "/"}
Specifiers == StringsUpTo(SpecifierChars, MaxSpecLen)

NoError == "none"

ResolveIdle == vop = "none" /\ vin = <<>> /\ vout = <<>>

\* A parse that cuts at the first separator and takes the rest as version.
parseBazelForkAndVersionAtFirstSlash(s) ==
    LET versionInfo == Split(s, "/")
    IN IF Len(versionInfo) = 1
       THEN [fork |-> BazelUpstream, version |-> versionInfo[1], err |-> NoError]
       ELSE [fork |-> versionInfo[1],
             version |-> SubSeq(s, Len(versionInfo[1]) + 2, Len(s)), err |-> NoError]

\* parseBazelForkAndVersion
parseBazelForkAndVersion(s) ==
    LET versionInfo == Split(s, "/")
    IN IF Len(versionInfo) = 1
       THEN [fork |-> BazelUpstream, version |-> versionInfo[1], err |-> NoError]
       ELSE IF Len(versionInfo) = 2
       THEN [fork |-> versionInfo[1], version |-> versionInfo[2], err |-> NoError]
       ELSE [fork |-> <<>>, version |-> <<>>, err |-> "more than one slash"]

ParseSpecifier ==
    /\ UNCHANGED notResolveVars
    /\ vop = "none"
    /\ \E s \in Specifiers :
           /\ vop' = "parse"
           /\ vin' = s
           /\ vout' = parseBazelForkAndVersion(s)

\* The release tags of the model: 0.9.0, 0.10.0 and 1.0.0, which the order of
\* their text and the order of their numbers rank differently, and a tag that
\* is no version.
ReleaseLabels ==
    {<<"0", ".", "9", ".", "0">>, <<"0", ".", "1", "0", ".", "0">>,
     <<"1", ".", "0", ".", "0">>, <<"x">>}

\* The lists of up to n different elements of S, in every order.
RECURSIVE ListingsUpTo(_, _)
ListingsUpTo(S, n) ==
    IF n = 0 THEN {<<>>}
    ELSE LET shorter == ListingsUpTo(S, n - 1)
         IN shorter \cup
            {Append(p[1], p[2]) :
               p \in {q \in shorter \X S : \A i \in 1..Len(q[1]) : q[1][i] # q[2]}}

Forks == {BazelUpstream, <<"f">>}
Offsets == 0..MaxOffset

\* What the GitHub release list of a fork answers: an error, or the tags of
\* its releases that are no prereleases.
GitHubAnswers ==
    {[ok |-> FALSE, tags |-> <<>>]}
    \cup {[ok |-> TRUE, tags |-> l] : l \in ListingsUpTo(ReleaseLabels, MaxListLen)}

Prefix(label) == Append(label, "/")

\* What the release bucket answers: an error, or the directories of its top
\* level and, for the request about the latest one's release directory, an
\* error ("err") or whether it holds items ("yes", "no").
BucketAnswers ==
    {[ok |-> FALSE, prefixes |-> <<>>, rel |-> "err"]}
    \cup {[ok |-> TRUE, prefixes |-> [i \in 1..Len(l) |-> Prefix(l[i])], rel |-> r] :
            l \in ListingsUpTo(ReleaseLabels, MaxListLen), r \in {"yes", "no", "err"}}

\* A run-time panic of the Go program.
Panic == "panic"

\* version.NewVersion: the numbers between the dots, none for what is no version.
NewVersion(v) ==
    LET parts == Split(v, ".")
    IN IF \A i \in 1..Len(parts) : AllDigits(parts[i])
       THEN [ok |-> TRUE, segments |-> [i \in 1..Len(parts) |-> Atoi(parts[i])]]
       ELSE [ok |-> FALSE, segments |-> <<>>]

\* Version.LessThan: the first differing segment decides, by its number.
RECURSIVE SegmentsLess(_, _)
SegmentsLess(a, b) ==
    IF a = <<>> \/ b = <<>> THEN FALSE
    ELSE IF Head(a) # Head(b) THEN Head(a) < Head(b)
    ELSE SegmentsLess(Tail(a), Tail(b))

VersionLess(v, w) == SegmentsLess(NewVersion(v).segments, NewVersion(w).segments)

RECURSIVE InsertVersion(_, _)
InsertVersion(x, s) ==
    IF s = <<>> THEN <<x>>
    ELSE IF VersionLess(x, Head(s)) THEN <<x>> \o s
    ELSE <<Head(s)>> \o InsertVersion(x, Tail(s))

RECURSIVE SortVersions(_)
SortVersions(s) ==
    IF s = <<>> THEN <<>> ELSE InsertVersion(Head(s), SortVersions(Tail(s)))

\* getVersionsInAscendingOrder: a tag NewVersion rejects leaves a nil wrapper,
\* which w.Original() dereferences.
getVersionsInAscendingOrder(versions) ==
    IF \E i \in 1..Len(versions) : ~NewVersion(versions[i]).ok
    THEN [list |-> <<>>, err |-> Panic]
    ELSE [list |-> SortVersions(versions), err |-> NoError]

\* getVersionHistoryFromGitHub
getVersionHistoryFromGitHub(gh) ==
    IF ~gh.ok THEN [list |-> <<>>, err |-> "could not get releases"]
    ELSE getVersionsInAscendingOrder(gh.tags)

\* strings.TrimSuffix(v, "/")
TrimSlash(v) ==
    IF v # <<>> /\ v[Len(v)] = "/" THEN SubSeq(v, 1, Len(v) - 1) ELSE v

\* getVersionsFromGCSPrefixes
getVersionsFromGCSPrefixes(versions) ==
    [i \in 1..Len(versions) |-> TrimSlash(versions[i])]

\* getVersionHistoryFromGCS
getVersionHistoryFromGCS(gcs, onlyFullReleases) ==
    IF ~gcs.ok THEN [list |-> <<>>, err |-> "could not list Bazel versions"]
    ELSE LET sorted == getVersionsInAscendingOrder(getVersionsFromGCSPrefixes(gcs.prefixes))
         IN IF sorted.err # NoError THEN sorted
            ELSE IF onlyFullReleases /\ Len(sorted.list) > 0
            THEN IF gcs.rel = "err"
                 THEN [list |-> <<>>, err |-> "could not list release candidates"]
                 ELSE IF gcs.rel = "no"
                 THEN [list |-> SubSeq(sorted.list, 1, Len(sorted.list) - 1),
                       err |-> NoError]
                 ELSE sorted
            ELSE sorted

\* The test of the offset lets the list's length itself through.
OffsetOutOfRangeStrict(offset, n) == offset > n

\* resolveLatestVersion: offset >= len(versions)
OffsetOutOfRange(offset, n) == offset >= n

\* The fallback is taken for every fork.
FallsBackAnyFork(fork, err) == err # NoError

\* resolveLatestVersion: a failed GitHub listing of upstream falls back.
FallsBack(fork, err) == err # NoError /\ fork = BazelUpstream

\* The result of a resolution: the label, the error, the number of versions
\* the error names, and the listings asked for, in order.
Resolved(label, calls) ==
    [label |-> label, err |-> NoError, count |-> 0, calls |-> calls]
Failure(err, count, calls) ==
    [label |-> <<>>, err |-> err, count |-> count, calls |-> calls]

\* s[i] of Go, i counted from 0.
At(s, i, calls) ==
    IF i \in 0..(Len(s) - 1) THEN Resolved(s[i + 1], calls)
    ELSE Failure(Panic, 0, calls)

\* resolveLatestVersion
resolveLatestVersion(fork, offset, gh, gcs) ==
    LET first == getVersionHistoryFromGitHub(gh)
        again == first.err # Panic /\ FallsBack(fork, first.err)
        versions == IF again THEN getVersionHistoryFromGCS(gcs, TRUE) ELSE first
        calls == IF again THEN <<"github", "gcs">> ELSE <<"github">>
    IN IF versions.err # NoError THEN Failure(versions.err, 0, calls)
       ELSE IF OffsetOutOfRange(offset, Len(versions.list))
       THEN Failure("There are only", Len(versions.list), calls)
       ELSE At(versions.list, Len(versions.list) - 1 - offset, calls)

ResolveLatest ==
    /\ UNCHANGED notResolveVars
    /\ vop = "none"
    /\ \E fork \in Forks, offset \in Offsets, gh \in GitHubAnswers, gcs \in BucketAnswers :
           /\ vop' = "latest"
           /\ vin' = [fork |-> fork, offset |-> offset, gh |-> gh, gcs |-> gcs]
           /\ vout' = resolveLatestVersion(fork, offset, gh, gcs)

\* The releases of the release backend: 1.2.0, 1.10.0, 2.0.0 and 10.0.0.
TrackLabels ==
    {<<"1", ".", "2", ".", "0">>, <<"1", ".", "1", "0", ".", "0">>,
     <<"2", ".", "0", ".", "0">>, <<"1", "0", ".", "0", ".", "0">>}

\* The track restriction of a specifier; 0 is none.
Tracks == 0..MaxTrack

\* What the release backend holds: an error, or its releases.
ReleaseAnswers ==
    {[ok |-> FALSE, versions |-> <<>>]}
    \cup {[ok |-> TRUE, versions |-> l] : l \in ListingsUpTo(TrackLabels, MaxListLen)}

\* versions.Info of a release specifier: an absolute value, or latest-N with
\* an optional track.
ReleaseInfos ==
    {[IsRelative |-> FALSE, Value |-> <<"2", ".", "0", ".", "0">>,
      LatestOffset |-> 0, TrackRestriction |-> 0]}
    \cup {[IsRelative |-> TRUE, Value |-> <<"latest">>,
           LatestOffset |-> n, TrackRestriction |-> t] : n \in Offsets, t \in Tracks}

\* strings.HasPrefix
HasPrefix(s, prefix) ==
    Len(prefix) <= Len(s) /\ SubSeq(s, 1, Len(prefix)) = prefix

\* A track filter whose prefix lacks the dot.
TrackFilterNoDot(track, version) == HasPrefix(version, Itoa(track))

\* TrackFilter(track)(version)
TrackFilter(track, version) == HasPrefix(version, Append(Itoa(track), "."))

\* The entries of s that pass the filter, in their order.
RECURSIVE SelectVersions(_, _)
SelectVersions(s, track) ==
    IF s = <<>> THEN <<>>
    ELSE IF TrackFilter(track, Head(s)) THEN <<Head(s)>> \o SelectVersions(Tail(s), track)
    ELSE SelectVersions(Tail(s), track)

\* Releases.GetReleaseVersions with filterReleasesByTrack(track): the
\* releases of the track.
GetReleaseVersionsByTrack(answer, track) ==
    IF ~answer.ok THEN [list |-> <<>>, err |-> "could not list releases"]
    ELSE [list |-> SelectVersions(answer.versions, track), err |-> NoError]

\* Releases.GetReleaseVersions with lastNReleases(max): the max highest
\* releases.
GetReleaseVersionsLastN(answer, max) ==
    IF ~answer.ok THEN [list |-> <<>>, err |-> "could not list releases"]
    ELSE LET sorted == SortVersions(answer.versions)
             from == IF Len(sorted) > max THEN Len(sorted) - max + 1 ELSE 1
         IN [list |-> SubSeq(sorted, from, Len(sorted)), err |-> NoError]

\* versions.GetInAscendingOrder
GetInAscendingOrder(available) == SortVersions(available)

\* resolvePotentiallyRelativeVersion, lister being what the lister returns
\* when called.
resolvePotentiallyRelativeVersion(lister, vi) ==
    IF ~vi.IsRelative THEN Resolved(vi.Value, <<>>)
    ELSE IF lister.err # NoError
    THEN Failure("unable to determine latest version", 0, <<"releases">>)
    ELSE LET available == lister.list
             index == Len(available) - 1 - vi.LatestOffset
         IN IF index < 0
            THEN Failure("There are not enough", Len(available), <<"releases">>)
            ELSE At(GetInAscendingOrder(available), index, <<"releases">>)

\* resolveRelease: the resolution of the version.
resolveRelease(answer, vi) ==
    LET lister == IF vi.TrackRestriction > 0
                  THEN GetReleaseVersionsByTrack(answer, vi.TrackRestriction)
                  ELSE GetReleaseVersionsLastN(answer, vi.LatestOffset + 1)
    IN resolvePotentiallyRelativeVersion(lister, vi)

ResolveRelease ==
    /\ UNCHANGED notResolveVars
    /\ vop = "none"
    /\ \E answer \in ReleaseAnswers, vi \in ReleaseInfos :
           /\ vop' = "release"
           /\ vin' = [answer |-> answer, vi |-> vi]
           /\ vout' = resolveRelease(answer, vi)

\* The directories below a version in the release bucket: rc1, rc9, rc10,
\* release, and one of another shape.
CandidateDirs ==
    {<<"r", "c", "1">>, <<"r", "c", "9">>, <<"r", "c", "1", "0">>,
     <<"r", "e", "l", "e", "a", "s", "e">>, <<"x">>}

\* What the bucket answers about the directory of a version: an error, or
\* the names of the directories below it.
DirectoryAnswers ==
    {[ok |-> FALSE, dirs |-> <<>>]}
    \cup {[ok |-> TRUE, dirs |-> l] : l \in ListingsUpTo(CandidateDirs, MaxListLen)}

\* The answers to the listing of the bucket's top level with no second request.
TopAnswers == {a \in BucketAnswers : a.rel = "yes"}

\* The prefixes of the directories below a version: version/dir/.
PrefixesBelow(version, dirs) ==
    [i \in 1..Len(dirs) |-> (Append(version, "/") \o dirs[i]) \o <<"/">>]

\* strings.Index(s, sub) > -1
Contains(s, sub) ==
    \E i \in 1..(Len(s) - Len(sub) + 1) : SubSeq(s, i, i + Len(sub) - 1) = sub

\* \d+.\d+.\d+ on a text of digits and dots
IsThreeNumbers(s) ==
    LET parts == Split(s, ".")
    IN Len(parts) = 3 /\ \A i \in 1..3 : AllDigits(parts[i])

\* re.FindStringSubmatch(v) for (\d+.\d+.\d+)/rc(\d+)/ on a prefix
\* version/dir/: the two groups, or no match (nil).
FindRcSubmatch(v) ==
    LET parts == Split(v, "/")
    IN IF /\ Len(parts) >= 3
          /\ IsThreeNumbers(parts[1])
          /\ HasPrefix(parts[2], <<"r", "c">>)
          /\ AllDigits(SubSeq(parts[2], 3, Len(parts[2])))
       THEN <<parts[1], SubSeq(parts[2], 3, Len(parts[2]))>>
       ELSE <<>>

\* The loop of getHighestRcVersion from entry at on.
RECURSIVE highestRcFrom(_, _, _, _)
highestRcFrom(versions, at, version, lastRc) ==
    IF at > Len(versions)
    THEN Resolved((version \o <<"r", "c">>) \o Itoa(lastRc), <<"gcs", "gcs">>)
    ELSE LET v == versions[at]
             m == FindRcSubmatch(v)
         IN IF Contains(v, <<"r", "e", "l", "e", "a", "s", "e">>)
            THEN Resolved(Split(v, "/")[1], <<"gcs", "gcs">>)
            ELSE IF m = <<>> THEN Failure(Panic, 0, <<"gcs", "gcs">>)
            ELSE highestRcFrom(versions, at + 1, m[1],
                               IF Atoi(m[2]) > lastRc THEN Atoi(m[2]) ELSE lastRc)

\* getHighestRcVersion
getHighestRcVersion(versions) == highestRcFrom(versions, 1, <<>>, 0)

\* resolveLatestRcVersion
resolveLatestRcVersion(top, below) ==
    LET versions == getVersionHistoryFromGCS(top, FALSE)
    IN IF versions.err # NoError THEN Failure(versions.err, 0, <<"gcs">>)
       ELSE IF Len(versions.list) = 0
       THEN Failure("could not find any Bazel versions", 0, <<"gcs">>)
       ELSE IF ~below.ok
       THEN Failure("could not list release candidates", 0, <<"gcs", "gcs">>)
       ELSE getHighestRcVersion(
                PrefixesBelow(versions.list[Len(versions.list)], below.dirs))

ResolveLastRc ==
    /\ UNCHANGED notResolveVars
    /\ vop = "none"
    /\ \E top \in TopAnswers, below \in DirectoryAnswers :
           /\ vop' = "last_rc"
           /\ vin' = [top |-> top, below |-> below]
           /\ vout' = resolveLatestRcVersion(top, below)

\* The five slots of a Repositories value.
Slots == {"Releases", "Candidates", "Fork", "Commits", "Rolling"}

\* A repository argument: nil, or one of two backends.
NilRepo == [kind |-> "nil", id |-> 0, err |-> ""]
Backend(id) == [kind |-> "backend", id |-> id, err |-> ""]
RepoArgs == {NilRepo, Backend(1), Backend(2)}

\* noReleaseRepo{err}, noCandidateRepo{err}, and so on
NoRepo(err) == [kind |-> "stand-in", id |-> 0, err |-> err]

\* The errors CreateRepositories gives its stand-ins.
SlotError ==
    [Releases |-> "Bazel LTS releases are not supported",
     Candidates |-> "Bazel release candidates are not supported",
     Fork |-> "forked versions of Bazel are not supported",
     Commits |-> "Bazel versions built at commits are not supported",
     Rolling |-> "Bazel rolling releases are not supported"]

\* A slot that is left as the argument is.
FillSlotAsGiven(arg, err) == arg

\* CreateRepositories: one slot, from its argument.
FillSlot(arg, err) == IF arg = NilRepo THEN NoRepo(err) ELSE arg

\* CreateRepositories
CreateRepositories(given, supportsBaseURL) ==
    [slots |-> [s \in Slots |-> FillSlot(given[s], SlotError[s])],
     supportsBaseURL |-> supportsBaseURL]

\* The operations of a slot: its listing (the commit lookup for Commits) and
\* its download.
RepoOps == {"list", "download"}

\* What an operation of a slot's repository returns: a stand-in returns nil
\* or "" and its error, a backend a value or an error of its own.
RepoResults(repo, op) ==
    IF repo.kind = "stand-in"
    THEN {[value |-> IF op = "list" THEN "nil" ELSE "", err |-> repo.err]}
    ELSE {[value |-> "value", err |-> ""],
          [value |-> IF op = "list" THEN "nil" ELSE "", err |-> "backend error"]}

Create ==
    /\ UNCHANGED notResolveVars
    /\ vop = "none"
    /\ \E given \in [Slots -> RepoArgs], supportsBaseURL \in BOOLEAN :
           /\ vop' = "create"
           /\ vin' = given
           /\ vout' = CreateRepositories(given, supportsBaseURL)

\* A caller uses one slot of the repositories just created.
UseRepository ==
    /\ UNCHANGED notResolveVars
    /\ vop = "create"
    /\ \E s \in Slots, op \in RepoOps :
           /\ vout.slots[s].kind # "nil"
           /\ \E r \in RepoResults(vout.slots[s], op) :
                  /\ vop' = "use"
                  /\ vin' = [given |-> vin, repos |-> vout, slot |-> s, op |-> op]
                  /\ vout' = r

\* Version texts are written with the words the resolver looks for as one
\* token each.
LastGreen == <<"last_green">>
LastDownstreamGreen == <<"last_downstream_green">>
LastRc == <<"last_rc">>
Latest == <<"latest">>

\* The versions resolveVersionLabel is asked for: the relative names, latest,
\* latest-N, latest- with no number after it, and a release.
LatestSpecifiers == {Latest} \cup {(Latest \o <<"-">>) \o Itoa(n) : n \in Offsets}
GreenSpecifiers == {LastGreen, LastDownstreamGreen}
AbsoluteSpecifiers == {<<"latest", "-", "x">>, <<"1", ".", "0", ".", "0">>}

\* What the two files of last green commits answer: an error, or a commit
\* with white space around it.
GreenFiles == {[ok |-> FALSE, content |-> <<>>], [ok |-> TRUE, content |-> <<"c", "\n">>],
               [ok |-> TRUE, content |-> <<" ", "d">>]}
GreenAnswers == [upstream : GreenFiles, downstream : GreenFiles]

\* Answers given to questions that are not asked.
Unasked ==
    [green |-> [upstream |-> [ok |-> FALSE, content |-> <<>>],
                downstream |-> [ok |-> FALSE, content |-> <<>>]],
     gh |-> [ok |-> FALSE, tags |-> <<>>],
     gcs |-> [ok |-> FALSE, prefixes |-> <<>>, rel |-> "err"],
     below |-> [ok |-> FALSE, dirs |-> <<>>]]

\* The calls of resolveVersionLabel: a fork, a version, and the answers of
\* the backends the version's kind can ask.
LabelCalls ==
    {[fork |-> f, version |-> v, green |-> g, gh |-> Unasked.gh, gcs |-> Unasked.gcs,
      below |-> Unasked.below] : f \in Forks, v \in GreenSpecifiers, g \in GreenAnswers}
    \cup {[fork |-> f, version |-> LastRc, green |-> Unasked.green, gh |-> Unasked.gh,
           gcs |-> t, below |-> b] : f \in Forks, t \in TopAnswers, b \in DirectoryAnswers}
    \cup {[fork |-> f, version |-> v, green |-> Unasked.green, gh |-> h, gcs |-> Unasked.gcs,
           below |-> Unasked.below] : f \in Forks, v \in LatestSpecifiers, h \in GitHubAnswers}
    \cup {[fork |-> f, version |-> Latest, green |-> Unasked.green, gh |-> Unasked.gh,
           gcs |-> b, below |-> Unasked.below] : f \in Forks, b \in BucketAnswers}
    \cup {[fork |-> f, version |-> v, green |-> Unasked.green, gh |-> Unasked.gh,
           gcs |-> Unasked.gcs, below |-> Unasked.below] :
            f \in Forks, v \in AbsoluteSpecifiers}

IsSpace(c) == c \in {" ", "\n"}

\* strings.TrimSpace
RECURSIVE TrimSpace(_)
TrimSpace(s) ==
    IF s = <<>> THEN s
    ELSE IF IsSpace(s[1]) THEN TrimSpace(Tail(s))
    ELSE IF IsSpace(s[Len(s)]) THEN TrimSpace(SubSeq(s, 1, Len(s) - 1))
    ELSE s

\* getLastGreenCommit
getLastGreenCommit(file) ==
    IF ~file.ok THEN [commit |-> <<>>, err |-> "could not determine last green commit"]
    ELSE [commit |-> TrimSpace(file.content), err |-> NoError]

\* r.FindStringSubmatch(bazelVersion) for ^latest(?:-(\d+))?$: the text of
\* the offset, empty without one, in a list; an empty list for no match (nil).
FindLatestSubmatch(bazelVersion) ==
    IF bazelVersion = Latest THEN <<<<>>>>
    ELSE IF /\ Len(bazelVersion) >= 3
            /\ SubSeq(bazelVersion, 1, 2) = <<"latest", "-">>
            /\ AllDigits(SubSeq(bazelVersion, 3, Len(bazelVersion)))
    THEN <<SubSeq(bazelVersion, 3, Len(bazelVersion))>>
    ELSE <<>>

\* The result of resolveVersionLabel: a label, whether it is a commit, the
\* error, and the backends asked.
Label(label, isCommit, err, calls) ==
    [label |-> label, isCommit |-> isCommit, err |-> err, calls |-> calls]

\* Every fork is taken for upstream.
IsUpstreamAlways(bazelFork) == TRUE

\* resolveVersionLabel: bazelFork == bazelUpstream
IsUpstream(bazelFork) == bazelFork = BazelUpstream

\* resolveVersionLabel
resolveVersionLabel(c) ==
    IF IsUpstream(c.fork) /\ c.version \in GreenSpecifiers
    THEN LET green == getLastGreenCommit(IF c.version = LastGreen THEN c.green.upstream
                                         ELSE c.green.downstream)
         IN IF green.err # NoError
            THEN Label(<<>>, FALSE, "cannot resolve last green commit", <<"green">>)
            ELSE Label(green.commit, TRUE, NoError, <<"green">>)
    ELSE IF IsUpstream(c.fork) /\ c.version = LastRc
    THEN LET rc == resolveLatestRcVersion(c.gcs, c.below)
         IN Label(rc.label, FALSE, rc.err, rc.calls)
    ELSE LET match == FindLatestSubmatch(c.version)
         IN IF match # <<>>
            THEN LET offset == IF match[1] # <<>> THEN Atoi(match[1]) ELSE 0
                     latest == resolveLatestVersion(c.fork, offset, c.gh, c.gcs)
                 IN Label(latest.label, FALSE, latest.err, latest.calls)
            ELSE Label(c.version, FALSE, NoError, <<>>)

ResolveLabel ==
    /\ UNCHANGED notResolveVars
    /\ vop = "none"
    /\ \E c \in LabelCalls :
           /\ vop' = "label"
           /\ vin' = c
           /\ vout' = resolveVersionLabel(c)

\* The labels handed to the candidate backend: 5.0.0 and a text after it.
SuffixChars == {"r", "c", "3", "X"}
CandidateLabels ==
    {<<"5", ".", "0", ".", "0">> \o s : s \in StringsUpTo(SuffixChars, MaxSuffixLen)}

\* strings.Split(s, sep) for a separator of any length.
RECURSIVE SplitOn(_, _)
SplitOn(s, sep) ==
    IF ~Contains(s, sep) THEN <<s>>
    ELSE LET i == CHOOSE j \in 1..(Len(s) - Len(sep) + 1) :
                      /\ SubSeq(s, j, j + Len(sep) - 1) = sep
                      /\ \A k \in 1..(j - 1) : SubSeq(s, k, k + Len(sep) - 1) # sep
         IN <<SubSeq(s, 1, i - 1)>> \o SplitOn(SubSeq(s, i + Len(sep), Len(s)), sep)

\* candidateBaseURL and destFile
CandidateBaseURL == <<"https://releases.bazel.build">>
DestFile == <<"bazel">>

\* GCSRepo.DownloadCandidate up to its request: the URL it asks for.
DownloadCandidate(version) ==
    IF ~Contains(version, <<"r", "c">>)
    THEN [baseVersion |-> <<>>, rcVersion |-> <<>>, url |-> <<>>,
          err |-> "does not refer to a release candidate"]
    ELSE LET versionComponents == SplitOn(version, <<"r", "c">>)
             baseVersion == versionComponents[1]
             rcVersion == <<"r", "c">> \o versionComponents[2]
         IN [baseVersion |-> baseVersion, rcVersion |-> rcVersion,
             url |-> CandidateBaseURL \o <<"/">> \o baseVersion \o <<"/">>
                         \o rcVersion \o <<"/">> \o DestFile,
             err |-> NoError]

RequestCandidate ==
    /\ UNCHANGED notResolveVars
    /\ vop = "none"
    /\ \E version \in CandidateLabels :
           /\ vop' = "candidate"
           /\ vin' = version
           /\ vout' = DownloadCandidate(version)

ResolveNext ==
    \/ ParseSpecifier
    \/ ResolveLatest
    \/ ResolveRelease
    \/ ResolveLastRc
    \/ ResolveLabel
    \/ RequestCandidate
    \/ Create
    \/ UseRepository

\* The number of separators in a specifier.
Separators(s) == Cardinality({i \in 1..Len(s) : s[i] = "/"})

\* C28: a specifier without a separator is a version of upstream, one with
\* exactly one separator is the fork before it and the version after it, and
\* one with two or more is a parse error that returns neither.
Inv_C28_SpecifierSplitsOnOneSeparator ==
    vop = "parse" =>
        /\ Separators(vin) = 0 =>
               vout = [fork |-> BazelUpstream, version |-> vin, err |-> NoError]
        /\ Separators(vin) = 1 =>
               /\ vout.err = NoError
               /\ vin = vout.fork \o <<"/">> \o vout.version
        /\ Separators(vin) >= 2 =>
               /\ vout.err # NoError
               /\ vout.fork = <<>>
               /\ vout.version = <<>>

Witness_C28 ==
    /\ vop = "parse"
    /\ Separators(vin) >= 2
    /\ vin[1] # "/"
    /\ vout.err # NoError

\* The entries of a listing.
Entries(l) == {l[i] : i \in 1..Len(l)}
IsVersionListing(l) == \A v \in Entries(l) : NewVersion(v).ok
\* The entries of l that are higher versions than v.
Above(v, l) == {w \in Entries(l) : VersionLess(v, w)}

\* C23: over a listing of versions, latest-N is the version with exactly N
\* higher versions in the listing when N is less than the listing's length,
\* and otherwise an error that names the listing's length; never a panic.
Inv_C23_LatestMinusNIsNthHighest ==
    (vop = "latest" /\ vin.gh.ok /\ IsVersionListing(vin.gh.tags)) =>
        LET n == Len(vin.gh.tags)
        IN /\ vout.err # Panic
           /\ vin.offset < n =>
                  /\ vout.err = NoError
                  /\ vout.label \in Entries(vin.gh.tags)
                  /\ Cardinality(Above(vout.label, vin.gh.tags)) = vin.offset
           /\ vin.offset >= n =>
                  /\ vout.err = "There are only"
                  /\ vout.count = n
                  /\ vout.label = <<>>

Witness_C23 ==
    /\ vop = "latest"
    /\ vin.gh.ok
    /\ vin.gh.tags = <<<<"0", ".", "1", "0", ".", "0">>, <<"1", ".", "0", ".", "0">>,
                       <<"0", ".", "9", ".", "0">>>>
    /\ vin.offset = 1
    /\ vout.label = <<"0", ".", "1", "0", ".", "0">>

\* C29: a successful GitHub listing is the only listing asked for; a failed
\* one is followed by one bucket listing for upstream, whose failure fails the
\* resolution, and by nothing for a fork, whose GitHub error is returned.
Inv_C29_OneFallbackForUpstreamOnly ==
    vop = "latest" =>
        /\ vin.gh.ok => vout.calls = <<"github">>
        /\ (~vin.gh.ok /\ vin.fork = BazelUpstream) =>
               /\ vout.calls = <<"github", "gcs">>
               /\ (~vin.gcs.ok \/ (vin.gcs.prefixes # <<>> /\ vin.gcs.rel = "err")) =>
                      (vout.err # NoError /\ vout.label = <<>>)
        /\ (~vin.gh.ok /\ vin.fork # BazelUpstream) =>
               /\ vout.calls = <<"github">>
               /\ vout.err = "could not get releases"
               /\ vout.label = <<>>

Witness_C29 ==
    /\ vop = "latest"
    /\ ~vin.gh.ok
    /\ vin.fork = BazelUpstream
    /\ vin.gcs.ok
    /\ vout.calls = <<"github", "gcs">>
    /\ vout.err = NoError

\* The entries of a listing whose major version is the track.
OnTrack(l, track) == {v \in Entries(l) : NewVersion(v).segments[1] = track}

\* C24: with a track restriction, latest-N is the version of the track with
\* exactly N higher versions of the track in the listing, and when the track
\* has N versions or fewer the error names the number of the track's versions.
Inv_C24_TrackFilteredBeforeOffset ==
    (/\ vop = "release"
     /\ vin.vi.IsRelative
     /\ vin.vi.TrackRestriction > 0
     /\ vin.answer.ok) =>
        LET matching == OnTrack(vin.answer.versions, vin.vi.TrackRestriction)
        IN /\ vin.vi.LatestOffset < Cardinality(matching) =>
                  /\ vout.err = NoError
                  /\ vout.label \in matching
                  /\ Cardinality({w \in matching : VersionLess(vout.label, w)})
                         = vin.vi.LatestOffset
           /\ vin.vi.LatestOffset >= Cardinality(matching) =>
                  /\ vout.err = "There are not enough"
                  /\ vout.count = Cardinality(matching)

Witness_C24 ==
    /\ vop = "release"
    /\ vin.vi.IsRelative
    /\ vin.vi.TrackRestriction = 1
    /\ vin.vi.LatestOffset = 1
    /\ vin.answer.versions = <<<<"1", ".", "1", "0", ".", "0">>, <<"1", "0", ".", "0", ".", "0">>,
                               <<"1", ".", "2", ".", "0">>>>
    /\ vout.label = <<"1", ".", "2", ".", "0">>

\* The ordinals of the release candidates among the directories.
RcOrdinals(dirs) ==
    {Atoi(SubSeq(d, 3, Len(d))) :
       d \in {c \in Entries(dirs) :
                HasPrefix(c, <<"r", "c">>) /\ AllDigits(SubSeq(c, 3, Len(c)))}}
HighestOf(S) == CHOOSE n \in S : \A k \in S : k <= n
\* The versions of the bucket's top level.
TopVersions(top) == getVersionsFromGCSPrefixes(top.prefixes)
LatestOf(l) == CHOOSE v \in Entries(l) : Above(v, l) = {}

\* C25: last_rc is the latest version's release candidate of the highest
\* ordinal, by number, and an error is returned when the bucket lists no
\* version or the latest version has no release candidate.
Inv_C25_LastRcHighestOrdinalOrError ==
    (vop = "last_rc" /\ vin.top.ok /\ IsVersionListing(TopVersions(vin.top))) =>
        /\ vin.top.prefixes = <<>> => vout.err \notin {NoError, Panic}
        /\ (vin.top.prefixes # <<>> /\ vin.below.ok) =>
               IF RcOrdinals(vin.below.dirs) = {}
               THEN vout.err \notin {NoError, Panic}
               ELSE /\ vout.err = NoError
                    /\ vout.label =
                           (LatestOf(TopVersions(vin.top)) \o <<"r", "c">>)
                               \o Itoa(HighestOf(RcOrdinals(vin.below.dirs)))

\* C30: every slot of the created repositories holds a repository: the
\* argument itself when one was given, and otherwise a stand-in carrying the
\* slot's own non-empty error, whose operations return that error and no value.
Inv_C30_EverySlotFilled ==
    /\ vop = "create" =>
           \A s \in Slots :
               /\ vout.slots[s] # NilRepo
               /\ vin[s] # NilRepo => vout.slots[s] = vin[s]
               /\ vin[s] = NilRepo =>
                      /\ vout.slots[s].kind = "stand-in"
                      /\ vout.slots[s].err # ""
                      /\ \A t \in Slots \ {s} : vout.slots[s].err # SlotError[t]
    /\ (vop = "use" /\ vin.given[vin.slot] = NilRepo) =>
           /\ vout.err = vin.repos.slots[vin.slot].err
           /\ vout.err # ""
           /\ vout.value \in {"nil", ""}

Witness_C30 ==
    /\ vop = "use"
    /\ vin.given["Candidates"] = NilRepo
    /\ vin.given["Fork"] = Backend(2)
    /\ vin.slot = "Candidates"
    /\ vout.err = "Bazel release candidates are not supported"

\* The file of last green commits a version names.
GreenFileOf(c) == IF c.version = LastGreen THEN c.green.upstream ELSE c.green.downstream
\* The text of a file without its white space.
Commit(file) == SelectSeq(file.content, LAMBDA ch : ~IsSpace(ch))

\* C27: the resolved label is a commit exactly when the fork is upstream, the
\* version is last_green or last_downstream_green and the lookup of its commit
\* succeeds; the label is then the commit the lookup gave.
Inv_C27_IsCommitOnlyForLastGreen ==
    vop = "label" =>
        LET green == /\ vin.fork = BazelUpstream
                     /\ vin.version \in {LastGreen, LastDownstreamGreen}
                     /\ GreenFileOf(vin).ok
        IN /\ vout.isCommit <=> green
           /\ green => (vout.label = Commit(GreenFileOf(vin)) /\ vout.err = NoError)

Witness_C27 ==
    /\ vop = "label"
    /\ vin.fork = BazelUpstream
    /\ vin.version = LastDownstreamGreen
    /\ vin.green.upstream.ok
    /\ vin.green.downstream.ok
    /\ vin.green.upstream.content # vin.green.downstream.content
    /\ vout.isCommit
    /\ vout.label = <<"d">>

\* The text of a label after its first "rc".
AfterRc(label) ==
    LET i == CHOOSE j \in 1..(Len(label) - 1) :
                 /\ SubSeq(label, j, j + 1) = <<"r", "c">>
                 /\ \A k \in 1..(j - 1) : SubSeq(label, k, k + 1) # <<"r", "c">>
    IN SubSeq(label, i + 2, Len(label))
BeforeRc(label) == SubSeq(label, 1, Len(label) - Len(AfterRc(label)) - 2)

\* C26: a label with "rc" and a number after it is split into the version
\* before the marker and the ordinal after it, and a label with anything else
\* after the marker is an error and gives no download location.
Inv_C26_CandidateOrdinalIsNumeric ==
    (vop = "candidate" /\ Contains(vin, <<"r", "c">>)) =>
        IF AllDigits(AfterRc(vin))
        THEN /\ vout.err = NoError
             /\ vout.baseVersion = BeforeRc(vin)
             /\ vout.rcVersion = <<"r", "c">> \o Itoa(Atoi(AfterRc(vin)))
        ELSE /\ vout.err # NoError
             /\ vout.url = <<>>

\* ------------------------------------------------------ the local binary

\* The letters of the paths of the model; with the digits they are the
\* characters of the class [[:alnum:]].
Letters == {"a", "b", "c"}

IsAlnum(c) == c \in Letters \/ IsDigit(c)

\* dirForURL: every character that is no letter and no digit becomes "-".
dirForURL(url) == [i \in 1..Len(url) |-> IF IsAlnum(url[i]) THEN url[i] ELSE "-"]

\* The absolute paths a version specifier names.
SourcePaths == {<<"/", "a", "/", "b">>, <<"/", "a", "-", "b">>, <<"/", "c">>}

\* destinationPath of linkLocalBazel: baseDirectory/<dirForURL(bazelPath)>/bin/bazel
\* with the platform's suffix; of its parts only the normalized name varies.
DestinationPath(bazelPath) == dirForURL(bazelPath)

Destinations == {DestinationPath(s) : s \in SourcePaths}

\* No file at a path, and the bytes of a copy that broke off.
Missing == <<>>
Partial == <<"?">>

NoEntry == [kind |-> "none", target |-> <<>>, bytes |-> <<>>]
SymlinkTo(src) == [kind |-> "link", target |-> src, bytes |-> <<>>]
CopyOf(bytes) == [kind |-> "copy", target |-> <<>>, bytes |-> bytes]

\* os.Stat follows a symbolic link: it fails for a link whose target is
\* missing as it does for a missing entry.
Stat(entry, files) ==
    \/ entry.kind = "copy"
    \/ entry.kind = "link" /\ files[entry.target] # Missing

\* os.Symlink makes the link whether or not its target exists, and fails
\* where an entry is already there or links are not supported.
Symlink(entry, supported) == supported /\ entry.kind = "none"

LinkRecord(src, dst, err, symlink, copy, entry, bytes) ==
    [src |-> src, dst |-> dst, err |-> err, symlink |-> symlink, copy |-> copy,
     entry |-> entry, bytes |-> bytes]

\* copyFile(src, dst, 0755): os.Open(src), os.OpenFile(dst, O_WRONLY|O_CREATE)
\* and io.Copy. Opening dst through a link whose target is missing creates
\* the target; a copy that breaks off leaves what was written.
copyFile(src, entry, files, openOk, copyOk) ==
    IF files[src] = Missing \/ ~openOk
    THEN [err |-> TRUE, entry |-> entry, files |-> files, wrote |-> FALSE]
    ELSE LET written == IF copyOk THEN files[src] ELSE Partial
         IN IF entry.kind = "link"
            THEN [err |-> ~copyOk, entry |-> entry,
                  files |-> [files EXCEPT ![entry.target] = written], wrote |-> TRUE]
            ELSE [err |-> ~copyOk, entry |-> CopyOf(written), files |-> files,
                  wrote |-> TRUE]

\* No call yet on an empty cache directory.
LinkStart ==
    /\ ldirs = {}
    /\ links = [d \in Destinations |-> NoEntry]
    /\ lhist = <<>>

LinkIdle == lfile = [s \in SourcePaths |-> s] /\ canLink = TRUE /\ LinkStart

LinkInit ==
    /\ lfile \in {[s \in SourcePaths |-> IF s \in have THEN s ELSE Missing] :
                      have \in SUBSET SourcePaths}
    /\ canLink \in BOOLEAN
    /\ LinkStart

\* linkLocalBazel(baseDirectory, bazelPath)
linkLocalBazel ==
    /\ UNCHANGED notLinkVars
    /\ Len(lhist) < MaxLinkCalls
    /\ \E bazelPath \in SourcePaths, mkdirOk \in BOOLEAN, openOk \in BOOLEAN, copyOk \in BOOLEAN :
         LET dst == DestinationPath(bazelPath)
             entry == links[dst]
             copied == copyFile(bazelPath, entry, lfile, openOk, copyOk)
         IN IF dst \notin ldirs /\ ~mkdirOk
            THEN /\ lhist' = Append(lhist, LinkRecord(bazelPath, <<>>, TRUE, "none", "none",
                                                      entry, lfile[bazelPath]))
                 /\ UNCHANGED <<lfile, ldirs, links>>
            ELSE /\ ldirs' = ldirs \cup {dst}
                 /\ IF Stat(entry, lfile)
                    THEN /\ lhist' = Append(lhist, LinkRecord(bazelPath, dst, FALSE, "none", "none",
                                                              entry, lfile[bazelPath]))
                         /\ UNCHANGED <<lfile, links>>
                    ELSE IF Symlink(entry, canLink)
                    THEN /\ links' = [links EXCEPT ![dst] = SymlinkTo(bazelPath)]
                         /\ lhist' = Append(lhist, LinkRecord(bazelPath, dst, FALSE, "made", "none",
                                                              SymlinkTo(bazelPath), lfile[bazelPath]))
                         /\ UNCHANGED lfile
                    ELSE /\ links' = [links EXCEPT ![dst] = copied.entry]
                         /\ lfile' = copied.files
                         /\ lhist' = Append(lhist,
                                LinkRecord(bazelPath, IF copied.err THEN <<>> ELSE dst, copied.err,
                                           "failed", IF copied.wrote THEN "made" ELSE "failed",
                                           copied.entry, lfile[bazelPath]))
    /\ UNCHANGED canLink

LinkNext == linkLocalBazel

\* C31: a call after a successful one for the same source path returns the
\* same destination and makes neither a link nor a copy, and no call tries a
\* copy unless making the link failed.
Inv_C31_RepeatedLinkIsNoOp ==
    /\ \A i \in 1..Len(lhist) : \A j \in (i + 1)..Len(lhist) :
           (lhist[j].src = lhist[i].src /\ ~lhist[i].err) =>
               /\ ~lhist[j].err
               /\ lhist[j].dst = lhist[i].dst
               /\ lhist[j].symlink # "made"
               /\ lhist[j].copy # "made"
    /\ \A i \in 1..Len(lhist) : lhist[i].copy # "none" => lhist[i].symlink = "failed"

\* The entry a call returned links to the call's source or holds its bytes.
RefersToSource(r) ==
    \/ r.entry.kind = "link" /\ r.entry.target = r.src
    \/ r.entry.kind = "copy" /\ r.entry.bytes = r.bytes

\* C40: the destination a call returns refers to the source path of that
\* call, and calls for different source paths return different destinations.
Inv_C40_DestinationRefersToItsSource ==
    /\ \A i \in 1..Len(lhist) : ~lhist[i].err => RefersToSource(lhist[i])
    /\ \A i \in 1..Len(lhist) : \A j \in 1..Len(lhist) :
           (~lhist[i].err /\ ~lhist[j].err /\ lhist[i].src # lhist[j].src) =>
               lhist[i].dst # lhist[j].dst

\* --------------------------------------------------- RunBazelisk and main

\* What getBazelVersion can return: an absolute path, a path below the home
\* directory, a version, a label, and a specifier with one slash too many.
VersionStrings ==
    {<<"/", "c">>, <<"~", "/", "c">>, <<"5", ".", "0">>, <<"l">>,
     <<"f", "/", "v", "/", "x">>}

\* The home directory homedir.Dir finds, none if it cannot tell.
HomeDirs == {<<>>, <<"/", "h">>}

\* What resolveVersionLabel can resolve a label to: a version and a commit.
ResolvedLabels == {<<"5", ".", "0">>, <<"a", "b">>}

\* resolvedBazelVersion := "unknown"
Unknown == <<"u", "n", "k", "n", "o", "w", "n">>

\* homedir.Expand: a path that does not begin with "~" is left as it is; "~"
\* and "~/..." get the home directory in front; "~user" is an error, as is a
\* home directory that cannot be found.
Expand(path, home) ==
    IF path = <<>> \/ path[1] # "~" THEN [path |-> path, err |-> FALSE]
    ELSE IF Len(path) > 1 /\ path[2] # "/" THEN [path |-> <<>>, err |-> TRUE]
    ELSE IF home = <<>> THEN [path |-> <<>>, err |-> TRUE]
    ELSE [path |-> home \o Tail(path), err |-> FALSE]

\* No path counts as absolute.
IsAbsNever(path) == FALSE

\* filepath.IsAbs on a system with "/" as the separator
IsAbs(path) == path # <<>> /\ path[1] = "/"

\* The number of digits s begins with.
RECURSIVE LeadingDigits(_)
LeadingDigits(s) ==
    IF s = <<>> \/ ~IsDigit(s[1]) THEN 0 ELSE 1 + LeadingDigits(Tail(s))

\* A match of anything: the whole text.
FindMajorMinorAny(v) == v

\* regexp ^\d+\.\d+ with FindString: the major and minor number v begins
\* with, the empty string if it does not begin with them.
FindMajorMinor(v) ==
    LET n == LeadingDigits(v)
        m == LeadingDigits(SubSeq(v, n + 2, Len(v)))
    IN IF n > 0 /\ Len(v) > n /\ v[n + 1] = "." /\ m > 0
       THEN SubSeq(v, 1, n + 1 + m)
       ELSE <<>>

\* getIncompatibleFlags: an error for a version without major and minor
\* number, before anything is fetched; else what the fetch and the scan give.
getIncompatibleFlags(resolvedBazelVersion, fetchOk) ==
    IF FindMajorMinor(resolvedBazelVersion) = <<>> THEN "invalid version"
    ELSE IF fetchOk THEN NoError
    ELSE "could not get issues"

\* A panic ends the process with status 2.
Panicked == [kind |-> "panic", code |-> 2, err |-> TRUE]

NoChild == [launched |-> FALSE, binary |-> <<>>, how |-> "none", status |-> 0]

NoBinary == [kind |-> "none", of |-> <<>>]

RunStart ==
    /\ hpc = "home"
    /\ hspec = <<>>
    /\ hpath = NoBinary
    /\ hver = Unknown
    /\ hlog = <<>>
    /\ hfail = "none"
    /\ hret = Running
    /\ hchild = NoChild
    /\ hexit = -1

RunIdle == hargs = <<StrBuild>> /\ RunStart

RunInit == hargs \in {f \o <<StrBuild>> : f \in FirstArgs} /\ RunStart

\* A step fails and RunBazelisk ends as r.
Fails(step, r) ==
    /\ hfail' = step
    /\ hret' = r
    /\ hpc' = "ended"

\* getEnvOrConfig("BAZELISK_HOME"), which reads .bazeliskrc once and ends the
\* process with log.Fatal if the file is there and cannot be read, then
\* os.UserCacheDir and os.MkdirAll.
RunHome ==
    /\ UNCHANGED notRunVars
    /\ hpc = "home"
    /\ hlog' = Append(hlog, "home")
    /\ \E out \in {"ok", "err", "fatal"} :
         CASE out = "ok" -> hpc' = "discover" /\ UNCHANGED <<hfail, hret>>
           [] out = "err" -> Fails("home", Return(-1, TRUE))
           [] out = "fatal" -> Fails("config", LogFatal)
    /\ UNCHANGED <<hargs, hspec, hpath, hver, hchild, hexit>>

\* getBazelVersion
RunDiscover ==
    /\ UNCHANGED notRunVars
    /\ hpc = "discover"
    /\ hlog' = Append(hlog, "discover")
    /\ \/ /\ Fails("discover", Return(-1, TRUE))
          /\ UNCHANGED hspec
       \/ /\ hspec' \in VersionStrings
          /\ hpc' = "expand"
          /\ UNCHANGED <<hfail, hret>>
    /\ UNCHANGED <<hargs, hpath, hver, hchild, hexit>>

\* homedir.Expand(bazelVersionString) and the test filepath.IsAbs(bazelPath)
RunExpand ==
    /\ UNCHANGED notRunVars
    /\ hpc = "expand"
    /\ hlog' = Append(hlog, "expand")
    /\ \E home \in HomeDirs :
         LET x == Expand(hspec, home)
         IN IF x.err
            THEN /\ Fails("expand", Return(-1, TRUE))
                 /\ UNCHANGED hpath
            ELSE /\ hpath' = [kind |-> "given", of |-> x.path]
                 /\ hpc' = IF IsAbs(x.path) THEN "link" ELSE "parse"
                 /\ UNCHANGED <<hfail, hret>>
    /\ UNCHANGED <<hargs, hspec, hver, hchild, hexit>>

\* parseBazelForkAndVersion(bazelVersionString)
RunParse ==
    /\ UNCHANGED notRunVars
    /\ hpc = "parse"
    /\ hlog' = Append(hlog, "parse")
    /\ IF parseBazelForkAndVersion(hspec).err # NoError
       THEN Fails("parse", Return(-1, TRUE))
       ELSE hpc' = "resolve" /\ UNCHANGED <<hfail, hret>>
    /\ UNCHANGED <<hargs, hspec, hpath, hver, hchild, hexit>>

\* resolveVersionLabel: a version, an error, or the panic of a listing with
\* an entry that is no version.
RunResolve ==
    /\ UNCHANGED notRunVars
    /\ hpc = "resolve"
    /\ hlog' = Append(hlog, "resolve")
    /\ \/ /\ Fails("resolve", Return(-1, TRUE))
          /\ UNCHANGED hver
       \/ /\ Fails("resolve", Panicked)
          /\ UNCHANGED hver
       \/ /\ hver' \in ResolvedLabels
          /\ hpc' = "download"
          /\ UNCHANGED <<hfail, hret>>
    /\ UNCHANGED <<hargs, hspec, hpath, hchild, hexit>>

\* downloadBazel
RunDownload ==
    /\ UNCHANGED notRunVars
    /\ hpc = "download"
    /\ hlog' = Append(hlog, "download")
    /\ \/ /\ Fails("download", Return(-1, TRUE))
          /\ UNCHANGED hpath
       \/ /\ hpath' = [kind |-> "downloaded", of |-> hver]
          /\ hpc' = "dispatch"
          /\ UNCHANGED <<hfail, hret>>
    /\ UNCHANGED <<hargs, hspec, hver, hchild, hexit>>

\* linkLocalBazel(baseDirectory, bazelPath)
RunLink ==
    /\ UNCHANGED notRunVars
    /\ hpc = "link"
    /\ hlog' = Append(hlog, "link")
    /\ \/ /\ Fails("link", Return(-1, TRUE))
          /\ UNCHANGED hpath
       \/ /\ hpath' = [kind |-> "linked", of |-> hpath.of]
          /\ hpc' = "dispatch"
          /\ UNCHANGED <<hfail, hret>>
    /\ UNCHANGED <<hargs, hspec, hver, hchild, hexit>>

\* The tests of the first argument: --print_env returns 0 without a child;
\* --strict and --migrate fetch the incompatible flags first.
RunDispatch ==
    /\ UNCHANGED notRunVars
    /\ hpc = "dispatch"
    /\ IF IsReserved(hargs, StrPrintEnv)
       THEN /\ hret' = Return(0, FALSE)
            /\ hpc' = "ended"
            /\ UNCHANGED <<hfail, hlog>>
       ELSE IF IsReserved(hargs, StrStrict) \/ IsReserved(hargs, StrMigrate)
       THEN /\ hlog' = Append(hlog, "flags")
            /\ \E fetchOk \in BOOLEAN :
                 IF getIncompatibleFlags(hver, fetchOk) # NoError
                 THEN Fails("flags", Return(-1, TRUE))
                 ELSE /\ hpc' = IF IsReserved(hargs, StrMigrate) THEN "migrate" ELSE "launch"
                      /\ UNCHANGED <<hfail, hret>>
       ELSE /\ hpc' = "launch"
            /\ UNCHANGED <<hfail, hret, hlog>>
    /\ UNCHANGED <<hargs, hspec, hpath, hver, hchild, hexit>>

\* runBazel(bazelPath, args) at the end of RunBazelisk
RunLaunch ==
    /\ UNCHANGED notRunVars
    /\ hpc = "launch"
    /\ hlog' = Append(hlog, "launch")
    /\ \E o \in ChildOutcomes :
         /\ hchild' = [launched |-> o.how # "nostart", binary |-> hpath,
                       how |-> o.how, status |-> o.status]
         /\ IF runBazelReturn(o).err
            THEN Fails("run", Return(-1, TRUE))
            ELSE /\ hret' = Return(runBazelReturn(o).code, FALSE)
                 /\ hpc' = "ended"
                 /\ UNCHANGED hfail
    /\ UNCHANGED <<hargs, hspec, hpath, hver, hexit>>

\* migrate(bazelPath, args[1:], newFlags): it runs its trials and ends the
\* process itself, with log.Fatalf if a child cannot be run, else with the
\* exit code of its last child or with 1 after the report.
RunMigrate ==
    /\ UNCHANGED notRunVars
    /\ hpc = "migrate"
    /\ hlog' = Append(hlog, "trial")
    /\ \E o \in ChildOutcomes :
         /\ hchild' = [launched |-> o.how # "nostart", binary |-> hpath,
                       how |-> o.how, status |-> o.status]
         /\ IF runBazelReturn(o).err
            THEN hret' = LogFatal /\ hfail' = "run"
            ELSE /\ hret' \in {OsExit(runBazelReturn(o).code % 256), OsExit(1)}
                 /\ UNCHANGED hfail
    /\ hpc' = "ended"
    /\ UNCHANGED <<hargs, hspec, hpath, hver, hexit>>

\* main: log.Fatal(err) for an error, os.Exit(exitCode) else; a process that
\* ended inside RunBazelisk has the status it ended with.
Main ==
    /\ UNCHANGED notRunVars
    /\ hpc = "ended"
    /\ hexit' = IF hret.kind = "return"
                THEN (IF hret.err THEN 1 ELSE hret.code % 256)
                ELSE hret.code
    /\ hpc' = "exited"
    /\ UNCHANGED <<hargs, hspec, hpath, hver, hlog, hfail, hret, hchild>>

RunNext ==
    \/ RunHome \/ RunDiscover \/ RunExpand \/ RunParse \/ RunResolve
    \/ RunDownload \/ RunLink \/ RunDispatch \/ RunLaunch \/ RunMigrate \/ Main

\* The step was taken.
Did(step) == \E i \in 1..Len(hlog) : hlog[i] = step

\* The version specifier is an absolute path.
LocalPath == hspec # <<>> /\ hspec[1] = "/"

Inv_C34_FailureReturnsSentinelWithoutChild ==
    /\ hfail \in {"discover", "parse", "resolve", "download"} =>
           /\ hret = Return(-1, TRUE)
           /\ ~hchild.launched
           /\ ~Did("launch") /\ ~Did("trial")
    /\ (hpc = "exited" /\ ~hchild.launched) =>
           hexit = IF hfail = "none" THEN 0 ELSE 1
    /\ (hpc = "exited" /\ Did("launch") /\ hchild.how = "exited") =>
           hexit = hchild.status

\* C39: with an absolute path as the version specifier the resolved version
\* stays "unknown", and --strict and --migrate fail at the list of
\* incompatible flags: RunBazelisk returns -1 with an error and neither a
\* child nor a trial is started.
Inv_C39_LocalPathFailsStrictAndMigrate ==
    LocalPath =>
        /\ hver = Unknown
        /\ (IsReserved(hargs, StrStrict) \/ IsReserved(hargs, StrMigrate)) =>
               /\ ~Did("launch") /\ ~Did("trial") /\ hchild = NoChild
               /\ hpc \notin {"launch", "migrate"}
               /\ Did("flags") => (hfail = "flags" /\ hret = Return(-1, TRUE))

Witness_C39 ==
    /\ LocalPath
    /\ IsReserved(hargs, StrMigrate)
    /\ hlog = <<"home", "discover", "expand", "link", "flags">>
    /\ hfail = "flags"
    /\ hpc = "exited"
    /\ hexit = 1

\* ------------------------------------------------------- specifications

vars == <<launcherVars, acquireVars, metaVars, signalVars, planVars, envVars, resolveVars, linkVars, runVars>>

\* One launcher run from the --print_env test on; the cache is left alone.
InitLauncher == LauncherInit /\ AcquireInit /\ MetaInit /\ SignalIdle /\ PlanIdle /\ EnvIdle /\ ResolveIdle /\ LinkIdle /\ RunIdle

SpecLauncher == InitLauncher /\ [][LauncherNext]_vars

\* The acquisitions of the processes sharing the cache directory; no launcher
\* has got to its dispatch yet.
LauncherIdle ==
    /\ argv = <<StrBuild>> /\ args = <<StrBuild>> /\ flags = {}
    /\ envShutdown = FALSE /\ envClean = FALSE /\ pc = "dispatch"
    /\ phase = "none" /\ newArgs = <<>> /\ margs = <<>> /\ idx = 0
    /\ passList = <<>> /\ failList = <<>> /\ reported = FALSE
    /\ runs = <<>> /\ term = Running

InitAcquire == AcquireInit /\ LauncherIdle /\ MetaInit /\ SignalIdle /\ PlanIdle /\ EnvIdle /\ ResolveIdle /\ LinkIdle /\ RunIdle

SpecAcquire == InitAcquire /\ [][AcquireNext]_vars

\* The MaybeDownload calls of the processes sharing the metadata cache file.
InitMeta == MetaInit /\ LauncherIdle /\ AcquireInit /\ SignalIdle /\ PlanIdle /\ EnvIdle /\ ResolveIdle /\ LinkIdle /\ RunIdle

SpecMeta == InitMeta /\ [][MetaNext]_vars

\* The runBazel calls of one launcher, their listeners, and the signals that
\* reach the launcher.
InitSignal == SignalInit /\ LauncherIdle /\ AcquireInit /\ MetaInit /\ PlanIdle /\ EnvIdle /\ ResolveIdle /\ LinkIdle /\ RunIdle

SpecSignal == InitSignal /\ [][SignalNext]_vars

\* A chain of nested invocations: each launcher plans its command, and a
\* wrapper that was started may start the launcher again.
InitPlan == PlanInit /\ LauncherIdle /\ AcquireInit /\ MetaInit /\ SignalIdle /\ EnvIdle /\ ResolveIdle /\ LinkIdle /\ RunIdle

SpecPlan == InitPlan /\ [][PlanNext]_vars

\* One launcher builds the environment of its child.
InitEnv == EnvInit /\ LauncherIdle /\ AcquireInit /\ MetaInit /\ SignalIdle /\ PlanIdle /\ ResolveIdle /\ LinkIdle /\ RunIdle

SpecEnv == InitEnv /\ [][EnvNext]_vars

\* Version resolution: one call of one of its operations at a time.
InitResolve ==
    ResolveIdle /\ LauncherIdle /\ AcquireInit /\ MetaInit /\ SignalIdle /\ PlanIdle /\ EnvIdle /\ LinkIdle /\ RunIdle

SpecResolve == InitResolve /\ [][ResolveNext]_vars

\* The linkLocalBazel calls made on one cache directory, one after another.
InitLink == LinkInit /\ LauncherIdle /\ AcquireInit /\ MetaInit /\ SignalIdle /\ PlanIdle /\ EnvIdle /\ ResolveIdle /\ RunIdle

SpecLink == InitLink /\ [][LinkNext]_vars

\* One launcher process from the start of RunBazelisk to its exit.
InitRun == RunInit /\ LauncherIdle /\ AcquireInit /\ MetaInit /\ SignalIdle /\ PlanIdle /\ EnvIdle /\ ResolveIdle /\ LinkIdle

SpecRun == InitRun /\ [][RunNext]_vars

====
